---- MODULE Spec2Model ----
(***************************************************************************)
(* The channel and query engine of cares-rs: the C ABI of src/ffi/mod.rs   *)
(* over the engine of src/core/ares.rs.  One channel, its task list, the   *)
(* sockets of the tasks, the caller's two fd_sets and the monotonic clock. *)
(***************************************************************************)
EXTENDS Integers, Sequences, FiniteSets, TLC

VARIABLES
    channel,       \* "live" | "destroyed" | "aborted" (a panic left an extern "C" fn)
    timeout_secs,  \* config.options.timeout_secs
    nameservers,   \* config.nameservers
    tasks,         \* Ares::tasks, a Vec<Task<FFIData>>
    nextId,        \* identity of the next submitted task (submission count + 1)
    now,           \* Instant::now(), in seconds
    ncalls,        \* per task identity: callbacks invoked so far (0, 1, 2 = twice or more)
    codec,         \* a run of the packet codec on its own: what is written,
                   \* the bytes, what is parsed back
    unit,          \* a run of one part below the ABI on its own (reply lists
                   \* and envelopes, null-terminated arrays, host entries,
                   \* the configuration): the input, the heap, what is returned
    last           \* the ABI call that has just returned, until the caller goes
                   \* on: its name, the caller's two fd_sets (as passed to
                   \* ares_process, as left by ares_fds), the value returned,
                   \* and the callbacks and socket syscalls it made, in order

vars == <<channel, timeout_secs, nameservers, tasks, nextId, now, ncalls, last, codec,
         unit>>

\* The channel, its clock and its caller.
engine == <<channel, timeout_secs, nameservers, tasks, nextId, now, ncalls, last>>

----------------------------------------------------------------------------
(* Bounds of the model *)

MaxTasks == 2
MaxTime == 1
MaxQueries == 2
MaxAnswers == 1
MaxHostLen == 3

(* Status codes, src/ffi/mod.rs:10-15 *)

ARES_SUCCESS == 0
ARES_ENODATA == 1
ARES_EFORMERR == 2
ARES_ESERVFAIL == 3
ARES_ENOTFOUND == 4
ARES_ETIMEOUT == 12

----------------------------------------------------------------------------
(* Values *)

TaskIds == 1..MaxTasks

\* Descriptors a new socket can get: the ones after stdin, stdout, stderr.
Fds == 3..(MaxTasks + 2)

\* A hostname as the byte lengths of the segments hostname.split(".") yields:
\* "mydomain.local".
Hostnames == {<<8, 5>>}

Families == {"AF_INET", "AF_INET6", "AF_UNSPEC"}

\* config.nameservers as ares_init finds it in a resolv.conf that names one
\* server.
ServerLists == {<<[addr |-> "ns1", port |-> "None"]>>}

\* Datagrams a socket can receive, from the nameserver or from anyone else
\* (the socket is bound to 0.0.0.0 and not connected).
Datagrams == {"Garbage", "AnswerA", "NoAnswer", "NxDomain"}

\* What is in a datagram.  parses: DnsFrame::parse returns Some; flags: the
\* header's flags; answers: the record type of each answer.
Content(d) ==
    CASE d = "Garbage"  -> [parses |-> FALSE, flags |-> 0,     answers |-> <<>>]
      [] d = "AnswerA"  -> [parses |-> TRUE,  flags |-> 33152, answers |-> <<1>>]  \* 0x8180
      [] d = "NoAnswer" -> [parses |-> TRUE,  flags |-> 33152, answers |-> <<>>]
      [] d = "NxDomain" -> [parses |-> TRUE,  flags |-> 33155, answers |-> <<>>]   \* 0x8183

\* What one recv_from on a non-blocking socket yields: the next datagram of
\* the socket's queue, or the error WouldBlock when the queue is empty.
RecvResults == Datagrams \cup {"WouldBlock"}

\* What a caller passes for maxtv: NULL (<<>>) or a timeval of whole seconds.
Maxtvs == {<<>>} \cup {<<sec>> : sec \in 0..MaxTime}

\* The record of a call that touches no fd_set and no timeval, returns nothing
\* and makes no callback and no syscall on a task's socket.  maxtv and tv are
\* the timevals ares_timeout is given and writes, each a sequence of at most
\* one.
Called(op) ==
    [op |-> op, readers |-> {}, writers |-> {}, nfds |-> 0, events |-> <<>>,
     maxtv |-> <<>>, tv |-> <<>>]

\* One more callback for a task; 2 stands for "twice or more".
Bump(n) == IF n >= 2 THEN 2 ELSE n + 1

RECURSIVE SumSeq(_)
SumSeq(s) == IF s = <<>> THEN 0 ELSE Head(s) + SumSeq(Tail(s))

----------------------------------------------------------------------------
(* src/core/packets.rs *)

\* DnsHeader::write: six u16.
DnsHeaderWriteLen == 6 * 2

\* DnsQuery::write: per segment a length byte and the bytes, a zero byte,
\* qtype and qclass.
DnsQueryWriteLen(name) == SumSeq([i \in 1..Len(name) |-> 1 + name[i]]) + 1 + 2 + 2

\* DnsFrame::write of a frame with one query: the bytes put in writebuf.
DnsFrameWriteLen(name) == DnsHeaderWriteLen + DnsQueryWriteLen(name)

\* No codec run.
NoCodec == [kind |-> "none", stage |-> "none", input |-> <<>>, wire |-> <<>>,
            parsed |-> <<>>]

\* No such run.
NoUnit == [kind |-> "none", stage |-> "none"]

\* BufMut::put_u8 / put_u16 / put_u32 (big endian) / put_slice, as the bytes
\* appended.
put_u8(v) == <<v % 256>>
put_u16(v) == <<(v \div 256) % 256, v % 256>>
put_u32(v) == put_u16(v \div 65536) \o put_u16(v % 65536)

\* Buf::try_get_u8 / try_get_u16 / try_get_u32 / try_copy_to_slice: an Option,
\* as a sequence of at most one [val, rest]; rest is the buffer advanced.
Rest(buf, n) == SubSeq(buf, n + 1, Len(buf))
try_get_u8(buf) ==
    IF Len(buf) < 1 THEN <<>> ELSE <<[val |-> buf[1], rest |-> Rest(buf, 1)]>>
try_get_u16(buf) ==
    IF Len(buf) < 2 THEN <<>>
    ELSE <<[val |-> buf[1] * 256 + buf[2], rest |-> Rest(buf, 2)]>>
try_get_u32(buf) ==
    IF Len(buf) < 4 THEN <<>>
    ELSE <<[val |-> ((buf[1] * 256 + buf[2]) * 256 + buf[3]) * 256 + buf[4],
            rest |-> Rest(buf, 4)]>>
try_copy_to_slice(buf, n) ==
    IF Len(buf) < n THEN <<>>
    ELSE <<[val |-> SubSeq(buf, 1, n), rest |-> Rest(buf, n)]>>

\* String::from_utf8 succeeds: the bytes of the model are single-byte code
\* points.
from_utf8_ok(bytes) == \A i \in 1..Len(bytes) : bytes[i] < 128

\* DnsHeader::write
DnsHeader_write(h) ==
    put_u16(h.transaction_id) \o put_u16(h.flags) \o put_u16(h.qdcount)
    \o put_u16(h.ancount) \o put_u16(h.nscount) \o put_u16(h.arcount)

\* DnsQuery::write, the loop over the segments and the closing zero: the bytes
\* of the name.
RECURSIVE WriteName(_)
WriteName(name) ==
    IF name = <<>> THEN put_u8(0)
    ELSE put_u8(Len(Head(name))) \o Head(name) \o WriteName(Tail(name))

\* DnsQuery::write
DnsQuery_write(q) == WriteName(q.name) \o put_u16(q.qtype) \o put_u16(q.qclass)

RECURSIVE WriteQueries(_)
WriteQueries(qs) ==
    IF qs = <<>> THEN <<>> ELSE DnsQuery_write(Head(qs)) \o WriteQueries(Tail(qs))

\* DnsFrame::write: the header with qdcount and three zero counts, then the
\* queries.
DnsFrame_write(f) ==
    DnsHeader_write([transaction_id |-> f.transaction_id, flags |-> f.flags,
                     qdcount |-> Len(f.queries) % 65536, ancount |-> 0,
                     nscount |-> 0, arcount |-> 0])
    \o WriteQueries(f.queries)

\* DnsHeader::parse: six u16.
U16At(buf, k) == Head(try_get_u16(Rest(buf, 2 * k))).val
DnsHeader_parse(buf) ==
    IF Len(buf) < 12 THEN <<>>
    ELSE <<[val |-> [transaction_id |-> U16At(buf, 0), flags |-> U16At(buf, 1),
                     qdcount |-> U16At(buf, 2), ancount |-> U16At(buf, 3),
                     nscount |-> U16At(buf, 4), arcount |-> U16At(buf, 5)],
            rest |-> Rest(buf, 12)]>>

\* DnsLabel::parse, the loop: cur is what the cursor has left, name the
\* segments read so far.  `len & 0xc0 > 0` is (len & 0xc0) > 0.
RECURSIVE LabelLoop(_, _)
LabelLoop(cur, name) ==
    LET l == try_get_u8(cur) IN
    IF l = <<>> THEN <<>>
    ELSE LET len == Head(l).val
             rest == Head(l).rest
         IN  IF len = 0
             THEN <<[val |-> [name |-> name, offset |-> <<>>], rest |-> rest]>>
             ELSE IF (len \div 64) % 4 > 0
             THEN LET low == try_get_u8(rest) IN
                  IF low = <<>> THEN <<>>
                  ELSE <<[val |-> [name |-> name,
                                   offset |-> <<(len % 64) * 256 + Head(low).val>>],
                          rest |-> Head(low).rest]>>
             ELSE LET dst == try_copy_to_slice(rest, len) IN
                  IF dst = <<>> THEN <<>>
                  ELSE IF ~from_utf8_ok(Head(dst).val) THEN <<>>
                  ELSE LabelLoop(Head(dst).rest, Append(name, Head(dst).val))

\* DnsLabel::parse
DnsLabel_parse(buf) == LabelLoop(buf, <<>>)

\* What DnsLabel::parse leaves in the caller's buffer, were the caller's
\* buffer itself read instead of a cursor over its chunk: the length byte of a
\* label that fails stays consumed.
DnsLabel_parse_buf_shared(buf) ==
    LET r == DnsLabel_parse(buf) IN
    IF r = <<>> THEN Rest(buf, IF Len(buf) < 1 THEN 0 ELSE 1)
    ELSE Rest(buf, Len(buf) - Len(Head(r).rest))

\* What DnsLabel::parse leaves in the caller's buffer: the reads are made on
\* a cursor of its own over buf.chunk(); every `?` returns before the buffer
\* is touched, and on success buf.advance(cur.position()).
DnsLabel_parse_buf(buf) ==
    LET r == DnsLabel_parse(buf) IN
    IF r = <<>> THEN buf
    ELSE LET bytes_read == Len(buf) - Len(Head(r).rest) IN Rest(buf, bytes_read)

\* name.join("."), as bytes.
RECURSIVE Join(_)
Join(name) ==
    IF name = <<>> THEN <<>>
    ELSE IF Len(name) = 1 THEN Head(name)
    ELSE Head(name) \o <<46>> \o Join(Tail(name))

\* DnsLabel::build_string.  panic: the slice &main_buf[offset..] with offset
\* beyond the length; value: the Option<String> returned otherwise.  The label
\* parsed at the offset gives its segments; its own offset is not read.
build_string(label, main_buf) ==
    IF label.offset = <<>>
    THEN [panic |-> FALSE, value |-> <<Join(label.name)>>]
    ELSE LET offset == Head(label.offset) IN
         IF offset > Len(main_buf) THEN [panic |-> TRUE, value |-> <<>>]
         ELSE LET target == DnsLabel_parse(Rest(main_buf, offset)) IN
              IF target = <<>> THEN [panic |-> FALSE, value |-> <<>>]
              ELSE [panic |-> FALSE,
                    value |-> <<Join(label.name \o Head(target).val.name)>>]

\* DnsQuery::parse
DnsQuery_parse(buf) ==
    LET label == DnsLabel_parse(buf) IN
    IF label = <<>> THEN <<>>
    ELSE LET qtype == try_get_u16(Head(label).rest) IN
    IF qtype = <<>> THEN <<>>
    ELSE LET qclass == try_get_u16(Head(qtype).rest) IN
    IF qclass = <<>> THEN <<>>
    ELSE <<[val |-> [name |-> Head(label).val.name, qtype |-> Head(qtype).val,
                     qclass |-> Head(qclass).val],
            rest |-> Head(qclass).rest]>>

\* DnsAnswer::parse
DnsAnswer_parse(buf) ==
    LET name == DnsLabel_parse(buf) IN
    IF name = <<>> THEN <<>>
    ELSE LET record_type == try_get_u16(Head(name).rest) IN
    IF record_type = <<>> THEN <<>>
    ELSE LET class == try_get_u16(Head(record_type).rest) IN
    IF class = <<>> THEN <<>>
    ELSE LET ttl == try_get_u32(Head(class).rest) IN
    IF ttl = <<>> THEN <<>>
    ELSE LET data_length == try_get_u16(Head(ttl).rest) IN
    IF data_length = <<>> THEN <<>>
    ELSE LET data == try_copy_to_slice(Head(data_length).rest, Head(data_length).val) IN
    IF data = <<>> THEN <<>>
    ELSE <<[val |-> [name |-> Head(name).val, record_type |-> Head(record_type).val,
                     class |-> Head(class).val, ttl |-> Head(ttl).val,
                     data |-> Head(data).val],
            rest |-> Head(data).rest]>>

\* DnsFrame::parse, the two loops: n more queries (answers) after those in acc.
RECURSIVE ParseQueries(_, _, _)
ParseQueries(n, buf, acc) ==
    IF n = 0 THEN <<[val |-> acc, rest |-> buf]>>
    ELSE LET q == DnsQuery_parse(buf) IN
         IF q = <<>> THEN <<>>
         ELSE ParseQueries(n - 1, Head(q).rest, Append(acc, Head(q).val))

RECURSIVE ParseAnswers(_, _, _)
ParseAnswers(n, buf, acc) ==
    IF n = 0 THEN <<[val |-> acc, rest |-> buf]>>
    ELSE LET a == DnsAnswer_parse(buf) IN
         IF a = <<>> THEN <<>>
         ELSE ParseAnswers(n - 1, Head(a).rest, Append(acc, Head(a).val))

\* DnsFrame::parse: Some(frame) or None.
DnsFrame_parse(buf) ==
    LET header == DnsHeader_parse(buf) IN
    IF header = <<>> THEN <<>>
    ELSE LET queries == ParseQueries(Head(header).val.qdcount, Head(header).rest, <<>>) IN
    IF queries = <<>> THEN <<>>
    ELSE LET answers == ParseAnswers(Head(header).val.ancount, Head(queries).rest, <<>>) IN
    IF answers = <<>> THEN <<>>
    ELSE <<[transaction_id |-> Head(header).val.transaction_id,
            flags |-> Head(header).val.flags,
            queries |-> Head(queries).val,
            answers |-> Head(answers).val]>>

----------------------------------------------------------------------------
(* src/core/ares.rs *)

\* hostname.split("."): the segments between the dots (byte 46).
RECURSIVE Split(_)
Split(hostname) ==
    LET dots == {i \in 1..Len(hostname) : hostname[i] = 46} IN
    IF dots = {} THEN <<hostname>>
    ELSE LET first == CHOOSE i \in dots : \A j \in dots : i <= j
         IN  <<SubSeq(hostname, 1, first - 1)>> \o Split(Rest(hostname, first))

\* is_expired with > for >=: a task is not expired at its very deadline.
is_expired_after(task, t) == t > task.expires_at

\* Task::is_expired, with the instant the clock shows when it is called.
is_expired(task, t) == t >= task.expires_at

\* A task whose deadline is the submission instant itself.
NewTask_no_timeout(id, fd, name, cb) ==
    [ id         |-> id,
      fd         |-> fd,
      status     |-> "Writing",
      writebuf   |-> DnsFrameWriteLen(name),
      nsent      |-> 0,
      cb         |-> cb,
      expires_at |-> now ]

\* The task Ares::gethostbyname and Ares::query build and push.
NewTask(id, fd, name, cb) ==
    [ id         |-> id,
      fd         |-> fd,
      status     |-> "Writing",
      writebuf   |-> DnsFrameWriteLen(name),
      nsent      |-> 0,
      cb         |-> cb,
      expires_at |-> now + timeout_secs ]

\* Ares::remove_completed: retain(|task| !task.is_expired()), the clock read
\* once per task; clk[k + i] is the instant read for the i-th task.
RECURSIVE Retain(_, _, _, _)
Retain(ts, clk, k, i) ==
    IF i > Len(ts) THEN <<>>
    ELSE (IF is_expired(ts[i], clk[k + i]) THEN <<>> ELSE <<ts[i]>>)
         \o Retain(ts, clk, k, i + 1)

remove_completed(ts, clk, k) == Retain(ts, clk, k, 1)

\* The time left with saturating_duration_since replaced by a plain
\* subtraction.
time_remaining_signed(task, t) == task.expires_at - t

\* Task::time_remaining, with the instant the clock shows: the Duration in
\* seconds, saturating at zero.
time_remaining(task, t) ==
    IF task.expires_at > t THEN task.expires_at - t ELSE 0

\* Iterator::min over the tasks' remaining times, None (<<>>) on an empty list.
MinRemaining(ts, clk) ==
    IF ts = <<>> THEN <<>>
    ELSE LET rem == {time_remaining(ts[i], clk[i]) : i \in 1..Len(ts)}
         IN  <<CHOOSE r \in rem : \A q \in rem : r <= q>>

\* Ares::max_wait_time: unwrap() of the minimum panics on an empty list.
max_wait_time(ts, clk) ==
    LET least == MinRemaining(ts, clk)
    IN  [panic |-> least = <<>>, wait |-> IF least = <<>> THEN 0 ELSE Head(least)]

\* A syscall on the socket of a task: the task's status when it is made and
\* what it yields.
Syscall(task, op, got) ==
    [ev |-> op, id |-> task.id, st |-> task.status, got |-> got]

\* Ares::write_impl on one task.  nameservers.first().unwrap() panics on an
\* empty list; the send_to of a datagram on the task's UDP socket is taken to
\* succeed.
write_impl(task) ==
    IF nameservers = <<>>
    THEN [task |-> task, events |-> <<>>, panic |-> TRUE]
    ELSE [task |-> [task EXCEPT !.status = "Reading", !.nsent = Bump(@)],
          panic |-> FALSE,
          events |-> <<Syscall(task, "sendto", "Sent")>>]

\* Ares::read_impl on one task, got being what recv_from yields.  On
\* WouldBlock unwrap() panics.  frame: the Option returned, as a sequence of
\* at most one frame.
read_impl(task, got) ==
    IF got = "WouldBlock"
    THEN [task |-> task, panic |-> TRUE, frame |-> <<>>,
          events |-> <<Syscall(task, "recvfrom", got)>>]
    ELSE [task |-> [task EXCEPT !.status = "Completed"],
          panic |-> FALSE,
          frame |-> IF Content(got).parses THEN <<Content(got)>> ELSE <<>>,
          events |-> <<Syscall(task, "recvfrom", got)>>]

----------------------------------------------------------------------------
(* src/ffi/mod.rs *)

\* One invocation of a task's callback: the status, whether the result
\* pointer (hostent or abuf) is null, and where what it points to lives.  Both
\* run_ares_host_callback and run_ares_callback pass the address of a value
\* of their own frame (`&mut hostent`, `buf.as_ptr()`), dropped when they
\* return.
Callback(id, status, null) ==
    [ev |-> "callback", id |-> id, status |-> status, null |-> null,
     storage |-> IF null THEN "none" ELSE "local"]

\* Callback::run_error: both callback shapes get the status and a null result.
run_error(id, status) == <<Callback(id, status, TRUE)>>

\* run_ares_host_callback: the callbacks it makes and whether it panics.
run_ares_host_callback(id, frame) ==
    LET reply_code == frame.flags % 16 IN
    IF reply_code > 0
    THEN [panic |-> FALSE,
          events |-> <<Callback(id, IF reply_code = 3 THEN ARES_ENOTFOUND
                                    ELSE ARES_ESERVFAIL, TRUE)>>]
    ELSE IF frame.answers = <<>>
    THEN [panic |-> FALSE, events |-> <<>>]
    ELSE IF Head(frame.answers) \notin {1, 28}
    THEN [panic |-> TRUE, events |-> <<>>]
    ELSE [panic |-> FALSE, events |-> <<Callback(id, ARES_SUCCESS, FALSE)>>]

\* run_ares_callback: the raw buffer, whatever the frame says.
run_ares_callback(id, frame) ==
    [panic |-> FALSE, events |-> <<Callback(id, ARES_SUCCESS, FALSE)>>]

\* Callback::run
Callback_run(task, frame) ==
    IF task.cb = "AresHostCallback"
    THEN run_ares_host_callback(task.id, frame)
    ELSE run_ares_callback(task.id, frame)

\* ares_process, first loop: every task the clock shows expired gets
\* run_error(ARES_ETIMEOUT) and status Completed.  clk[i] is the instant read
\* for the i-th task.
ExpireTasks(ts, clk) ==
    [i \in 1..Len(ts) |->
        IF is_expired(ts[i], clk[i]) THEN [ts[i] EXCEPT !.status = "Completed"]
        ELSE ts[i]]

RECURSIVE ExpireCalls(_, _, _)
ExpireCalls(ts, clk, i) ==
    IF i > Len(ts) THEN <<>>
    ELSE (IF is_expired(ts[i], clk[i]) THEN run_error(ts[i].id, ARES_ETIMEOUT)
          ELSE <<>>)
         \o ExpireCalls(ts, clk, i + 1)

\* ares_process, body of the second loop for one task: FD_ISSET(write_fds)
\* then FD_ISSET(read_fds), neither looking at the task's status.
ScanTask(task, rfds, wfds, rx) ==
    LET w == IF task.fd \in wfds THEN write_impl(task)
             ELSE [task |-> task, events |-> <<>>, panic |-> FALSE]
    IN  IF w.panic \/ w.task.fd \notin rfds
        THEN [task |-> w.task, events |-> w.events, panic |-> w.panic]
        ELSE LET r == read_impl(w.task, rx[task.fd])
                 c == IF r.frame = <<>> THEN [panic |-> FALSE, events |-> <<>>]
                      ELSE Callback_run(r.task, Head(r.frame))
             IN  [task |-> r.task, events |-> w.events \o r.events \o c.events,
                  panic |-> r.panic \/ c.panic]

\* ares_process, second loop: the tasks in order, stopping at a panic.
RECURSIVE ScanTasks(_, _, _, _, _, _)
ScanTasks(ts, i, rfds, wfds, rx, acc) ==
    IF i > Len(ts) \/ acc.panic THEN acc
    ELSE LET s == ScanTask(ts[i], rfds, wfds, rx)
         IN  ScanTasks(ts, i + 1, rfds, wfds, rx,
                       [tasks  |-> Append(acc.tasks, s.task),
                        events |-> acc.events \o s.events,
                        panic  |-> s.panic])

\* The whole of ares_process on a task list: what it leaves in the list, the
\* callbacks and syscalls it makes in order, whether it panics.
Process(ts, clk, rfds, wfds, rx) ==
    LET swept == remove_completed(ExpireTasks(ts, clk), clk, Len(ts))
    IN  ScanTasks(swept, 1, rfds, wfds, rx,
                  [tasks |-> <<>>, events |-> ExpireCalls(ts, clk, 1),
                   panic |-> FALSE])

\* The callback counts after the events of a call.
RECURSIVE Counted(_, _)
Counted(nc, events) ==
    IF events = <<>> THEN nc
    ELSE Counted(IF Head(events).ev = "callback"
                 THEN [nc EXCEPT ![Head(events).id] = Bump(@)] ELSE nc,
                 Tail(events))

\* The instants k successive reads of the monotonic clock can show.
RECURSIVE ClockReads(_, _)
ClockReads(from, k) ==
    IF k = 0 THEN {<<>>}
    ELSE UNION {{<<t>> \o s : s \in ClockReads(t, k - 1)} : t \in from..MaxTime}

TaskFds(ts) == {ts[i].fd : i \in 1..Len(ts)}
TaskIdsOf(ts) == {ts[i].id : i \in 1..Len(ts)}

\* FD_ZERO forgotten: the set keeps what the caller left in it.
FD_ZERO_skipped(set) == set

\* FD_ZERO on an fd_set.
FD_ZERO(set) == {}

\* ares_fds, the loop: FD_SET by status, and the running nfds.
RECURSIVE FdsLoop(_, _, _)
FdsLoop(ts, i, acc) ==
    IF i > Len(ts) THEN acc
    ELSE LET fd == ts[i].fd
             set == CASE ts[i].status = "Writing" ->
                            [acc EXCEPT !.writers = @ \cup {fd}]
                      [] ts[i].status = "Reading" ->
                            [acc EXCEPT !.readers = @ \cup {fd}]
                      [] OTHER -> acc
         IN  IF ts[i].status = "Completed" THEN FdsLoop(ts, i + 1, acc)
             ELSE FdsLoop(ts, i + 1,
                          [set EXCEPT !.nfds = IF @ < fd THEN fd + 1 ELSE @])

\* ares_fds on two fd_sets holding rd and wr on entry.
FdsResult(ts, rd, wr) ==
    FdsLoop(ts, 1, [readers |-> FD_ZERO(rd), writers |-> FD_ZERO(wr), nfds |-> 0])

----------------------------------------------------------------------------
(* The operations *)

\* The channel is usable and the caller is between two calls.
Ready == channel = "live" /\ last.op = "none"

Init ==
    /\ channel = "live"
    /\ timeout_secs \in 0..MaxTime   \* resolv.conf "options timeout:N", any N
    /\ nameservers \in ServerLists
    /\ tasks = <<>>
    /\ nextId = 1
    /\ now = 0
    /\ ncalls = [id \in TaskIds |-> 0]
    /\ last = Called("ares_init")
    /\ codec = NoCodec
    /\ unit = NoUnit

\* Ares::gethostbyname / Ares::query inserting the task at the front of the
\* list.
Submit_at_front(name, cb, op) ==
    /\ nextId <= MaxTasks
    /\ \E fd \in Fds \ TaskFds(tasks) :
           tasks' = <<NewTask(nextId, fd, name, cb)>> \o tasks
    /\ nextId' = nextId + 1
    /\ last' = Called(op)
    /\ UNCHANGED <<codec, unit, channel, timeout_secs, nameservers, now, ncalls>>

\* Ares::gethostbyname / Ares::query: bind a socket, push the task.
Submit(name, cb, op) ==
    /\ nextId <= MaxTasks
    /\ \E fd \in Fds \ TaskFds(tasks) :
           tasks' = Append(tasks, NewTask(nextId, fd, name, cb))
    /\ nextId' = nextId + 1
    /\ last' = Called(op)
    /\ UNCHANGED <<codec, unit, channel, timeout_secs, nameservers, now, ncalls>>

\* A panic in an extern "C" function aborts the process.
Abort(call, t) ==
    /\ channel' = "aborted"
    /\ tasks' = <<>>
    /\ ncalls' = Counted(ncalls, call.events)
    /\ now' = t
    /\ last' = call
    /\ UNCHANGED <<codec, unit, timeout_secs, nameservers, nextId>>

ares_gethostbyname ==
    /\ Ready
    /\ \E name \in Hostnames, family \in Families :
           IF family \in {"AF_INET", "AF_INET6"}
           THEN Submit(name, "AresHostCallback", "ares_gethostbyname")
           ELSE Abort(Called("ares_gethostbyname"), now)

ares_query ==
    /\ Ready
    /\ \E name \in Hostnames : Submit(name, "AresCallback", "ares_query")

\* ares_fds on two fd_sets holding rd and wr.
ares_fds ==
    /\ Ready
    /\ \E rd \in SUBSET Fds, wr \in SUBSET Fds :
           LET r == FdsResult(tasks, rd, wr) IN
           last' = [Called("ares_fds") EXCEPT !.readers = r.readers,
                                              !.writers = r.writers,
                                              !.nfds = r.nfds]
    /\ UNCHANGED <<codec, unit, channel, timeout_secs, nameservers, tasks, nextId, now, ncalls>>

\* ares_process on the fd_sets rd and wr, whatever the caller put in them
\* (of a descriptor that is no task's socket, no bit is ever tested).  rx: what
\* a recv_from on each socket yields now, whatever the network has delivered.
ares_process ==
    /\ Ready
    /\ \E rd \in SUBSET TaskFds(tasks), wr \in SUBSET TaskFds(tasks) :
       \E clk \in ClockReads(now, 2 * Len(tasks)), rx \in [rd -> RecvResults] :
           LET p == Process(tasks, clk, rd, wr, rx)
               call == [Called("ares_process") EXCEPT !.readers = rd, !.writers = wr,
                                                      !.events = p.events]
               t == IF clk = <<>> THEN now ELSE clk[Len(clk)]
           IN  IF p.panic
               THEN Abort(call, t)
               ELSE /\ tasks' = p.tasks
                    /\ ncalls' = Counted(ncalls, p.events)
                    /\ now' = t
                    /\ last' = call
                    /\ UNCHANGED <<codec, unit, channel, timeout_secs, nameservers, nextId>>

\* ares_destroy telling every task left of its cancellation.
ares_destroy_notifying ==
    /\ Ready
    /\ channel' = "destroyed"
    /\ tasks' = <<>>
    /\ ncalls' = [id \in TaskIds |->
                     IF id \in TaskIdsOf(tasks) THEN Bump(ncalls[id]) ELSE ncalls[id]]
    /\ last' = Called("ares_destroy")
    /\ UNCHANGED <<codec, unit, timeout_secs, nameservers, nextId, now>>

\* ares_timeout(channel, maxtv, tv): maxtv is not read.  The Duration goes
\* through as_millis() into tv_sec and tv_usec.
ares_timeout ==
    /\ Ready
    /\ \E maxtv \in Maxtvs, clk \in ClockReads(now, Len(tasks)) :
           LET w == max_wait_time(tasks, clk)
               millis == w.wait * 1000
               given == [Called("ares_timeout") EXCEPT !.maxtv = maxtv]
               t == IF clk = <<>> THEN now ELSE clk[Len(clk)]
           IN  IF w.panic
               THEN Abort(given, t)
               ELSE /\ last' = [given EXCEPT
                                  !.tv = <<[tv_sec  |-> millis \div 1000,
                                            tv_usec |-> 1000 * (millis % 1000)]>>]
                    /\ now' = t
                    /\ UNCHANGED <<codec, unit, channel, timeout_secs, nameservers, tasks,
                                   nextId, ncalls>>

ares_destroy ==
    /\ Ready
    /\ channel' = "destroyed"
    /\ tasks' = <<>>
    /\ last' = Called("ares_destroy")
    /\ UNCHANGED <<codec, unit, timeout_secs, nameservers, nextId, now, ncalls>>

\* The clock.
Tick ==
    /\ Ready
    /\ now < MaxTime
    /\ now' = now + 1
    /\ UNCHANGED <<codec, unit, channel, timeout_secs, nameservers, tasks, nextId, ncalls, last>>

\* The caller goes on after a call that returned.
Return ==
    /\ channel = "live"
    /\ last.op # "none"
    /\ last' = Called("none")
    /\ UNCHANGED <<codec, unit, channel, timeout_secs, nameservers, tasks, nextId, now, ncalls>>

Next ==
    \/ ares_gethostbyname
    \/ ares_query
    \/ ares_fds
    \/ ares_process
    \/ ares_timeout
    \/ ares_destroy
    \/ Tick
    \/ Return

Spec == Init /\ [][Next]_vars

----------------------------------------------------------------------------
(* The delivery contract and the task life cycle *)

Indices(seq) == 1..Len(seq)

\* ares_process has just returned to its caller.
ProcessReturned == channel = "live" /\ last.op = "ares_process"

IsResponse(e) == e.ev = "callback" /\ e.status # ARES_ETIMEOUT
IsSyscall(e) == e.ev \in {"sendto", "recvfrom"}

Rank(status) ==
    CASE status = "Writing" -> 0 [] status = "Reading" -> 1 [] status = "Completed" -> 2

\* C1: over its whole lifetime the callback of a task is invoked at most once.
C1_AtMostOneCallback == \A id \in TaskIds : ncalls[id] <= 1

\* C2: when ares_process is called at or after a task's deadline, the task has
\* had a callback by the time the call returns; and ares_process removes no
\* task from the list whose callback was never invoked.
C2_EveryTaskAnswered ==
    [][ (channel' = "live" /\ last'.op = "ares_process") =>
            \A i \in Indices(tasks) :
                /\ now >= tasks[i].expires_at => ncalls'[tasks[i].id] >= 1
                /\ tasks[i].id \notin TaskIdsOf(tasks') => ncalls'[tasks[i].id] >= 1
      ]_vars

\* C3: once ares_process has returned, and when ares_fds takes the next
\* snapshot, no task of the list has status Completed.
C3_NoCompletedLeft ==
    (channel = "live" /\ last.op \in {"ares_process", "ares_fds"}) =>
        \A i \in Indices(tasks) : tasks[i].status # "Completed"

\* C4: Writing => write buffer non-empty and not sent; Reading => write buffer
\* sent; Completed => the callback has been invoked exactly once.
C4_StatusInvariant ==
    \A i \in Indices(tasks) :
        /\ tasks[i].status = "Writing" => tasks[i].writebuf > 0 /\ tasks[i].nsent = 0
        /\ tasks[i].status = "Reading" => tasks[i].nsent >= 1
        /\ tasks[i].status = "Completed" => ncalls[tasks[i].id] = 1

\* C5: a datagram that does not parse, read by a Reading task, is dropped: no
\* callback in that step, and the task is still in the list in status Reading.
C5_GarbageDiscarded ==
    ProcessReturned =>
        \A k \in Indices(last.events) :
            LET e == last.events[k] IN
            (e.ev = "recvfrom" /\ e.st = "Reading" /\ e.got = "Garbage") =>
                /\ \E i \in Indices(tasks) :
                       tasks[i].id = e.id /\ tasks[i].status = "Reading"
                /\ \A j \in Indices(last.events) :
                       ~(last.events[j].ev = "callback" /\ last.events[j].id = e.id)

\* C6: the status of a task never moves backwards, and its request is sent at
\* most once.
C6_ForwardOnly ==
    [][ \A i \in Indices(tasks), j \in Indices(tasks') :
            tasks[i].id = tasks'[j].id =>
                /\ Rank(tasks'[j].status) >= Rank(tasks[i].status)
                /\ tasks'[j].nsent <= 1
      ]_vars

\* C7: a task whose deadline has passed when ares_process is called becomes
\* Completed in the first loop whatever the clock shows, gets its callback with
\* ARES_ETIMEOUT and a null result before any syscall of the step, and no
\* sendto or recvfrom of the step is made on its socket; it is swept.
C7_TimeoutBeforeIo ==
    [][ last'.op = "ares_process" =>
            \A i \in Indices(tasks) :
                now >= tasks[i].expires_at =>
                    /\ \A clk \in ClockReads(now, 2 * Len(tasks)) :
                           ExpireTasks(tasks, clk)[i].status = "Completed"
                    /\ \E k \in Indices(last'.events) :
                           /\ last'.events[k] = Callback(tasks[i].id, ARES_ETIMEOUT, TRUE)
                           /\ \A j \in 1..k : ~IsSyscall(last'.events[j])
                    /\ \A k \in Indices(last'.events) :
                           IsSyscall(last'.events[k]) => last'.events[k].id # tasks[i].id
                    /\ tasks[i].id \notin TaskIdsOf(tasks')
      ]_vars

\* An ares_process that got the fd of its one, expired, task in both sets and
\* answered with the timeout callback alone.
C7_Witness ==
    /\ ProcessReturned
    /\ nextId = 2
    /\ tasks = <<>>
    /\ last.readers # {}
    /\ last.writers # {}
    /\ last.events = <<Callback(1, ARES_ETIMEOUT, TRUE)>>

\* C8: ares_destroy invokes no callback and empties the task list, and once the
\* channel is destroyed no callback is invoked any more.
C8_DestroySilent ==
    [][ (channel = "destroyed" \/ channel' = "destroyed") =>
            /\ ncalls' = ncalls
            /\ tasks' = <<>>
            /\ last'.events = <<>>
      ]_vars

\* A channel destroyed with tasks in the list that never had a callback: at
\* instant 0 no task has been swept.
C8_Witness ==
    /\ channel = "destroyed"
    /\ now = 0
    /\ nextId > MaxTasks
    /\ \A id \in TaskIds : ncalls[id] = 0

\* C9: ares_process delivers a response callback to a task only after a
\* recvfrom it made on that task in status Reading with its fd in the readers
\* passed; and a Reading task whose fd is not among them is left as it was.
C9_ResponseOnlyWhenReadable ==
    [][ (channel' = "live" /\ last'.op = "ares_process") =>
            /\ \A k \in Indices(last'.events) :
                   IsResponse(last'.events[k]) =>
                       \E j \in 1..k, i \in Indices(tasks) :
                           /\ last'.events[j].ev = "recvfrom"
                           /\ last'.events[j].id = last'.events[k].id
                           /\ last'.events[j].st = "Reading"
                           /\ tasks[i].id = last'.events[k].id
                           /\ tasks[i].fd \in last'.readers
            /\ \A i \in Indices(tasks), j \in Indices(tasks') :
                   ( /\ tasks[i].id = tasks'[j].id
                     /\ tasks[i].status = "Reading"
                     /\ tasks[i].fd \notin last'.readers ) => tasks'[j] = tasks[i]
      ]_vars

\* C10: after ares_fds the writers are exactly the fds of the Writing tasks
\* and the readers exactly the fds of the Reading tasks; the fd of a Completed
\* task is in neither.
C10_FdsExact ==
    (channel = "live" /\ last.op = "ares_fds") =>
        /\ \A fd \in Fds :
               /\ fd \in last.writers <=>
                      \E i \in Indices(tasks) :
                          tasks[i].fd = fd /\ tasks[i].status = "Writing"
               /\ fd \in last.readers <=>
                      \E i \in Indices(tasks) :
                          tasks[i].fd = fd /\ tasks[i].status = "Reading"
        /\ last.readers \cup last.writers \subseteq Fds
        /\ \A i \in Indices(tasks) :
               tasks[i].status = "Completed" =>
                   tasks[i].fd \notin last.readers \cup last.writers

\* An ares_fds on a list holding a Completed task and a Reading one.
C10_Witness ==
    /\ channel = "live"
    /\ last.op = "ares_fds"
    /\ \E i, j \in Indices(tasks) :
           tasks[i].status = "Completed" /\ tasks[j].status = "Reading"
    /\ last.readers # {}

----------------------------------------------------------------------------
(* What the calls report *)

MaxOf(S) == CHOOSE x \in S : \A y \in S : y <= x

\* C11: ares_fds returns the largest fd it put in either set plus one, and 0
\* when it put none.
C11_NfdsIsMaxPlusOne ==
    (channel = "live" /\ last.op = "ares_fds") =>
        last.nfds = IF last.readers \cup last.writers = {} THEN 0
                    ELSE MaxOf(last.readers \cup last.writers) + 1

\* C12: a response that parses and whose rcode is not 0 is answered, for both
\* callback shapes, by a callback with ARES_ENOTFOUND (rcode 3) or
\* ARES_ESERVFAIL (any other), and ARES_SUCCESS follows only rcode 0.
C12_RcodeSignalled ==
    ProcessReturned =>
        \A k \in Indices(last.events) :
            LET e == last.events[k] IN
            (e.ev = "recvfrom" /\ e.got \in Datagrams /\ Content(e.got).parses
               /\ Content(e.got).flags % 16 # 0) =>
                /\ k < Len(last.events)
                /\ last.events[k + 1] =
                       Callback(e.id,
                                IF Content(e.got).flags % 16 = 3 THEN ARES_ENOTFOUND
                                ELSE ARES_ESERVFAIL,
                                TRUE)

\* C13: a response with rcode 0 and no answer read by a gethostbyname task is
\* answered by its callback with ARES_ENODATA and a null host entry.
C13_NoAnswerIsEnodata ==
    [][ (channel' = "live" /\ last'.op = "ares_process") =>
            \A k \in Indices(last'.events) :
                LET e == last'.events[k] IN
                (/\ e.ev = "recvfrom" /\ e.got = "NoAnswer"
                 /\ \E i \in Indices(tasks) :
                        tasks[i].id = e.id /\ tasks[i].cb = "AresHostCallback") =>
                    /\ k < Len(last'.events)
                    /\ last'.events[k + 1] = Callback(e.id, ARES_ENODATA, TRUE)
      ]_vars

\* C15: ares_gethostbyname never aborts the process and, unless it took the
\* name with AF_INET or AF_INET6, leaves the task list as it was.
C15_BadFamilyReported ==
    [][ last'.op = "ares_gethostbyname" =>
            /\ channel' = "live"
            /\ tasks' = tasks \/ Len(tasks') = Len(tasks) + 1
      ]_vars

\* C14: the host callback gets a null host entry exactly when the status is
\* not ARES_SUCCESS, and with ARES_SUCCESS a host entry handed over to the
\* callee, valid after the callback has returned.
C14_HostentNullIffFailure ==
    [][ last'.op = "ares_process" =>
            \A k \in Indices(last'.events) :
                LET e == last'.events[k] IN
                (/\ e.ev = "callback"
                 /\ \E i \in Indices(tasks) :
                        tasks[i].id = e.id /\ tasks[i].cb = "AresHostCallback") =>
                    /\ e.null <=> e.status # ARES_SUCCESS
                    /\ e.status = ARES_SUCCESS => e.storage = "callee"
      ]_vars

----------------------------------------------------------------------------
(* Deadlines *)

\* C16: a task enters the list with expires_at = the instant of its submission
\* + timeout_secs, expires_at never changes while the task is in the list, and
\* an ares_process that makes the ARES_ETIMEOUT callback of a task ends at or
\* after the task's deadline.
C16_DeadlineFixed ==
    [][ /\ \A j \in Indices(tasks') :
               tasks'[j].id \notin TaskIdsOf(tasks) =>
                   tasks'[j].expires_at = now + timeout_secs
        /\ \A i \in Indices(tasks), j \in Indices(tasks') :
               tasks[i].id = tasks'[j].id =>
                   tasks'[j].expires_at = tasks[i].expires_at
        /\ last'.op = "ares_process" =>
               \A i \in Indices(tasks) :
                   now' < tasks[i].expires_at =>
                       \A k \in Indices(last'.events) :
                           last'.events[k] # Callback(tasks[i].id, ARES_ETIMEOUT, TRUE)
      ]_vars

\* An ares_process that began before the deadline of the one task, saw the
\* clock reach it and made the ARES_ETIMEOUT callback; and a task submitted
\* after the clock had moved.
C16_Witness ==
    /\ ProcessReturned
    /\ now = MaxTime
    /\ \E k \in Indices(last.events) :
           last.events[k] = Callback(1, ARES_ETIMEOUT, TRUE)
    /\ \E i \in Indices(tasks) : tasks[i].expires_at > MaxTime

\* The microseconds of a timeval.
Micros(tv) == tv.tv_sec * 1000000 + tv.tv_usec

\* ares_timeout has just returned to its caller.
TimeoutReturned == channel = "live" /\ last.op = "ares_timeout"

\* C17: with tasks in the list, the timeval ares_timeout writes is well formed
\* and never negative, is at most expires_at - now for every task of the list
\* whose deadline is still ahead when the call is made, and is 0 when the
\* deadline of some task has passed by then.
C17_TimeoutAtMostMinRemaining ==
    [][ (channel' = "live" /\ last'.op = "ares_timeout" /\ tasks # <<>>) =>
            /\ Len(last'.tv) = 1
            /\ Head(last'.tv).tv_sec >= 0
            /\ Head(last'.tv).tv_usec \in 0..999999
            /\ \A i \in Indices(tasks) :
                   /\ now < tasks[i].expires_at =>
                          Micros(Head(last'.tv)) <= (tasks[i].expires_at - now) * 1000000
                   /\ now >= tasks[i].expires_at => Micros(Head(last'.tv)) = 0
      ]_vars

\* An ares_timeout on a list of two tasks, the deadline of one of them gone
\* by, that wrote 0.
C17_Witness ==
    /\ TimeoutReturned
    /\ Len(tasks) = 2
    /\ \E i \in Indices(tasks) : tasks[i].expires_at < now
    /\ last.tv = <<[tv_sec |-> 0, tv_usec |-> 0]>>

\* C18: ares_timeout returns normally, with or without tasks, and when maxtv
\* is given what it writes never exceeds maxtv and is maxtv when every task
\* has more time left than that.
C18_TimeoutClamped ==
    [][ last'.op = "ares_timeout" =>
            /\ channel' = "live"
            /\ Len(last'.tv) = 1
            /\ last'.maxtv # <<>> =>
                   /\ Micros(Head(last'.tv)) <= Head(last'.maxtv) * 1000000
                   /\ (\A i \in Indices(tasks) :
                           tasks[i].expires_at - now' > Head(last'.maxtv)) =>
                          Micros(Head(last'.tv)) = Head(last'.maxtv) * 1000000
      ]_vars

----------------------------------------------------------------------------
(* The packet codec on its own *)

SeqsUpTo(S, n) == UNION {[1..k -> S] : k \in 0..n}

\* Names without compression whose segments a DNS name may have (1 to 63
\* bytes): "a" and "ab.c".
CodecNames == {<< <<97>> >>, << <<97, 98>>, <<99>> >>}

CodecQueries == [name : CodecNames, qtype : {1, 28}, qclass : {1}]

CodecAnswers ==
    [name : [name : CodecNames, offset : {<<>>}], record_type : {1}, class : {1},
     ttl : {300}, data : {<<127, 0, 0, 1>>}]

\* Well-formed frames, as the DnsFrame values given to DnsFrame::write.
CodecFrames ==
    [transaction_id : {0, 4660}, flags : {256, 33152},
     queries : SeqsUpTo(CodecQueries, MaxQueries),
     answers : SeqsUpTo(CodecAnswers, MaxAnswers)]

\* Hostnames: every string of "a" and "." up to MaxHostLen bytes (the empty
\* one, trailing dots and empty segments among them), and two with a segment
\* of 64 bytes.
CodecHostnames ==
    SeqsUpTo({97, 46}, MaxHostLen)
    \cup {[i \in 1..64 |-> 97], [i \in 1..64 |-> 97] \o <<46, 97>>}

CodecRun(kind, input) ==
    [kind |-> kind, stage |-> "input", input |-> input, wire |-> <<>>,
     parsed |-> <<>>]

InitCodec ==
    /\ channel = "live"
    /\ timeout_secs = 1
    /\ nameservers = <<>>
    /\ tasks = <<>>
    /\ nextId = 1
    /\ now = 0
    /\ ncalls = [id \in TaskIds |-> 0]
    /\ last = Called("none")
    /\ unit = NoUnit
    /\ \/ \E f \in CodecFrames : codec = CodecRun("frame", f)
       \/ \E h \in CodecHostnames : codec = CodecRun("name", h)

\* DnsFrame::write into an empty buffer.
WriteFrame ==
    /\ codec.kind = "frame" /\ codec.stage = "input"
    /\ codec' = [codec EXCEPT !.stage = "written",
                              !.wire = DnsFrame_write(codec.input)]
    /\ UNCHANGED <<engine, unit>>

\* DnsFrame::parse of the bytes written.
ParseFrame ==
    /\ codec.kind = "frame" /\ codec.stage = "written"
    /\ codec' = [codec EXCEPT !.stage = "parsed",
                              !.parsed = DnsFrame_parse(codec.wire)]
    /\ UNCHANGED <<engine, unit>>

\* DnsQuery::write of the query Ares::query builds for a hostname.
WriteQuery ==
    /\ codec.kind = "name" /\ codec.stage = "input"
    /\ codec' = [codec EXCEPT
                    !.stage = "written",
                    !.wire = DnsQuery_write([name |-> Split(codec.input),
                                             qtype |-> 1, qclass |-> 1])]
    /\ UNCHANGED <<engine, unit>>

\* DnsLabel::parse of the bytes written.
ParseLabel ==
    /\ codec.kind = "name" /\ codec.stage = "written"
    /\ codec' = [codec EXCEPT !.stage = "parsed",
                              !.parsed = DnsLabel_parse(codec.wire)]
    /\ UNCHANGED <<engine, unit>>

NextCodec ==
    \/ WriteFrame
    \/ ParseFrame
    \/ WriteQuery
    \/ ParseLabel

SpecCodec == InitCodec /\ [][NextCodec]_vars

\* C19: parsing the bytes DnsFrame::write produces for a well-formed frame
\* without compression yields Some frame, equal to the one written in
\* transaction id, flags, queries and answers.
C19_FrameRoundTrip ==
    (codec.kind = "frame" /\ codec.stage = "parsed") =>
        codec.parsed = <<codec.input>>

\* C20: parsing the bytes written for the name of a hostname split at its dots
\* yields exactly its segments and no offset, and the name takes the length of
\* the hostname + 2 bytes (the query's qtype and qclass take 4 more).
C20_LabelRoundTrip ==
    (codec.kind = "name" /\ codec.stage = "parsed") =>
        /\ Len(codec.parsed) = 1
        /\ Head(codec.parsed).val = [name |-> Split(codec.input), offset |-> <<>>]
        /\ Len(codec.wire) - 4 = Len(codec.input) + 2

----------------------------------------------------------------------------
(* DnsLabel::parse and DnsLabel::build_string on raw bytes *)

MaxLabelBytes == 4

\* Bytes of a message: the terminator, lengths 1 and 2 (also offsets), "a",
\* the pointer mark 0xc0 and 0xc8 (not UTF-8 on its own, and as a pointer an
\* offset past any message here).
LabelAlphabet == {0, 1, 2, 97, 192, 200}

\* Messages whose label at 0 reaches its last segment through two pointers.
LabelChains ==
    {<<192, 2, 192, 4, 1, 97, 0>>,
     <<1, 98, 192, 4, 192, 6, 1, 97, 0>>,
     <<192, 2, 1, 98, 192, 6, 1, 97, 0>>}

LabelMessages == SeqsUpTo(LabelAlphabet, MaxLabelBytes) \cup LabelChains

\* A run: the message, what the caller's cursor over it has left, the label
\* parsed at its start, and the full name built from that label.
LabelRun(input) ==
    [kind |-> "label", stage |-> "input", input |-> input, buf |-> input,
     parsed |-> <<>>, resolved |-> [panic |-> FALSE, value |-> <<>>]]

InitLabel ==
    /\ channel = "live"
    /\ timeout_secs = 1
    /\ nameservers = <<>>
    /\ tasks = <<>>
    /\ nextId = 1
    /\ now = 0
    /\ ncalls = [id \in TaskIds |-> 0]
    /\ last = Called("none")
    /\ unit = NoUnit
    /\ \E msg \in LabelMessages : codec = LabelRun(msg)

\* DnsLabel::parse(&mut buf) at the start of the message.
LabelParse ==
    /\ codec.kind = "label" /\ codec.stage = "input"
    /\ codec' = [codec EXCEPT !.stage = "parsed",
                              !.parsed = DnsLabel_parse(codec.buf),
                              !.buf = DnsLabel_parse_buf(codec.buf)]
    /\ UNCHANGED <<engine, unit>>

\* label.build_string(main_buf) of the label parsed, over the whole message.
LabelBuild ==
    /\ codec.kind = "label" /\ codec.stage = "parsed"
    /\ codec.parsed # <<>>
    /\ codec' = [codec EXCEPT
                    !.stage = "resolved",
                    !.resolved = build_string(Head(codec.parsed).val, codec.input)]
    /\ UNCHANGED <<engine, unit>>

NextLabel ==
    \/ LabelParse
    \/ LabelBuild

SpecLabel == InitLabel /\ [][NextLabel]_vars

\* The bytes a label takes on the wire: one length byte and the bytes of each
\* segment, then the zero byte or the two bytes of the pointer.
LabelWireLen(label) ==
    SumSeq([i \in 1..Len(label.name) |-> 1 + Len(label.name[i])])
    + (IF label.offset = <<>> THEN 1 ELSE 2)

LabelParsed == codec.kind = "label" /\ codec.stage \in {"parsed", "resolved"}
LabelResolved == codec.kind = "label" /\ codec.stage = "resolved"

\* C21: DnsLabel::parse moves the caller's cursor only on success: after a
\* failure the cursor has left exactly what it had, and after a success it has
\* advanced by the bytes of the label, its zero byte or its two pointer bytes
\* included.
C21_CursorMovesOnlyOnSuccess ==
    LabelParsed =>
        IF codec.parsed = <<>> THEN codec.buf = codec.input
        ELSE codec.buf = Rest(codec.input, LabelWireLen(Head(codec.parsed).val))

\* A parse that failed after a whole segment was read.
C21_Witness ==
    /\ LabelParsed
    /\ codec.parsed = <<>>
    /\ Len(codec.input) = MaxLabelBytes
    /\ codec.input[1] = 1 /\ codec.input[2] = 97

\* The label the pointer of `label` targets, if it parses.
TargetOf(buf, label) ==
    IF label.offset = <<>> \/ Head(label.offset) > Len(buf) THEN <<>>
    ELSE DnsLabel_parse(Rest(buf, Head(label.offset)))

\* C22: the full name of a label whose pointer targets an offset equal to or
\* beyond the length of the message is a parse failure as a value (None), for
\* every such offset: no abort.
C22_OffsetPastEndIsNone ==
    (/\ LabelResolved
     /\ Head(codec.parsed).val.offset # <<>>
     /\ Head(Head(codec.parsed).val.offset) >= Len(codec.input))
    => (~codec.resolved.panic /\ codec.resolved.value = <<>>)

\* The segments along the chain of pointers from `label`, up to the first
\* zero byte, following at most `fuel` pointers; <<>> when the chain does not
\* end within them or a label of it does not parse.
RECURSIVE ChainName(_, _, _)
ChainName(buf, label, fuel) ==
    IF label.offset = <<>> THEN <<label.name>>
    ELSE IF fuel = 0 \/ TargetOf(buf, label) = <<>> THEN <<>>
    ELSE LET more == ChainName(buf, Head(TargetOf(buf, label)).val, fuel - 1) IN
         IF more = <<>> THEN <<>> ELSE <<label.name \o Head(more)>>

\* The offsets visited along the chain of pointers from `label` come back to
\* one already visited.
RECURSIVE ChainCycles(_, _, _)
ChainCycles(buf, label, seen) ==
    /\ label.offset # <<>>
    /\ \/ Head(label.offset) \in seen
       \/ /\ TargetOf(buf, label) # <<>>
          /\ ChainCycles(buf, Head(TargetOf(buf, label)).val,
                         seen \cup {Head(label.offset)})

\* C23: when the label at a pointer's target itself ends in a pointer, the
\* segments reached through the second and further pointers are appended
\* too: the full name is every segment along the chain up to the first zero
\* byte, joined with dots.
C23_PointersFollowedRecursively ==
    (/\ LabelResolved
     /\ TargetOf(codec.input, Head(codec.parsed).val) # <<>>
     /\ Head(TargetOf(codec.input, Head(codec.parsed).val)).val.offset # <<>>
     /\ ChainName(codec.input, Head(codec.parsed).val, Len(codec.input)) # <<>>)
    => codec.resolved.value =
         <<Join(Head(ChainName(codec.input, Head(codec.parsed).val,
                               Len(codec.input))))>>

\* C24: on a message whose pointers form a cycle (a pointer that targets
\* itself included) the full name is a parse failure: not a name, not a crash.
C24_CycleIsParseFailure ==
    (LabelResolved /\ ChainCycles(codec.input, Head(codec.parsed).val, {0}))
    => (~codec.resolved.panic /\ codec.resolved.value = <<>>)

----------------------------------------------------------------------------
(* src/ffi/ares_data.rs, src/ffi/clinkedlist.rs and the reply parsers of    *)
(* src/ffi/mod.rs: envelopes, linked lists and the heap they live on        *)

MaxNodes == 3

\* size_of::<AresDataType>(): a #[repr(C)] enum is a c_int.
TagSize == 4

\* Distance between the addresses of two allocations; the allocation of
\* heap index i is at Addr(i).
CellSpan == 64
Addr(i) == i * CellSpan

\* Widths of a pointer (and of usize), in bytes, of the targets.
PointerWidths == {4, 8}

AresDataTypes == {"MxReply", "TxtReply", "AddrPortNode"}

\* The fields of the #[repr(C)] payload types, in order; "c_void_ptr" is the
\* payload *mut c_void of the envelope free_data computes its offset for.
FieldsOf(T) ==
    CASE T = "MxReply" -> <<"ptr", "ptr", "c_ushort">>
      [] T = "TxtReply" -> <<"ptr", "ptr", "usize">>
      [] T = "AddrPortNode" -> <<"ptr", "c_int", "AresAddrUnion", "c_int", "c_int">>
      [] T = "c_void_ptr" -> <<"ptr">>

\* align_of of a field type: in6_addr, the widest member of AresAddrUnion, is
\* 16 bytes aligned to 4.
FieldAlign(f, W) ==
    CASE f = "ptr" -> W
      [] f = "usize" -> W
      [] f = "c_ushort" -> 2
      [] f = "c_int" -> 4
      [] f = "AresAddrUnion" -> 4

\* align_of::<T>() of a #[repr(C)] struct: the largest alignment of a field.
AlignOf(T, W) ==
    MaxOf({FieldAlign(FieldsOf(T)[i], W) : i \in 1..Len(FieldsOf(T))})

align_up(off, align) == ((off + align - 1) \div align) * align

\* offset_of!(AresData<T>, data): data follows the tag data_type.
OffsetOfData(T, W) == align_up(TagSize, AlignOf(T, W))

\* restore_original_ptr, had it subtracted the size of the tag alone.
restore_original_ptr_packed(dataptr, W) == dataptr - TagSize

\* restore_original_ptr
restore_original_ptr(dataptr, W) == dataptr - OffsetOfData("c_void_ptr", W)

\* An allocation.  kind: "node" (a Box of a list node), "envelope" (a Box of
\* an AresData, its payload node inline) or "cstring"; frees: times it was
\* deallocated; drops: times Drop::drop ran on it; next, str: heap indices,
\* 0 for NULL; val: what the node or the string carries.
Cell(kind, tag, val) ==
    [kind |-> kind, tag |-> tag, frees |-> 0, drops |-> 0, next |-> 0,
     str |-> 0, val |-> val]

\* The loop over the answers of ares_parse_mx_reply and ares_parse_txt_reply.
\* res: the node being filled.  A node whose string is set gets a successor;
\* back: the successor is built with `next: res` (mx) and not with a null next
\* (txt).  Then the CString of the answer is allocated and stored.
RECURSIVE ReplyLoop(_, _, _, _)
ReplyLoop(heap, res, answers, back) ==
    IF answers = <<>> THEN heap
    ELSE LET grown == heap[res].str # 0
             node == Len(heap) + 1
             h1 == IF grown
                   THEN Append([heap EXCEPT ![res].next = node],
                               [Cell("node", heap[res].tag, 0)
                                  EXCEPT !.next = IF back THEN res ELSE 0])
                   ELSE heap
             res1 == IF grown THEN node ELSE res
             cstr == Len(h1) + 1
             h2 == Append([h1 EXCEPT ![res1].str = cstr,
                                     ![res1].val = Head(answers)],
                          Cell("cstring", "none", Head(answers)))
         IN  ReplyLoop(h2, res1, Tail(answers), back)

\* `*Box::from_raw(head)` moved into a boxed AresData: the box of the head is
\* deallocated, its fields live on in the envelope; *out is the address of the
\* payload of the envelope.
Envelope(heap, head, W) ==
    LET moved == [heap EXCEPT ![head].frees = @ + 1]
        env == Len(heap) + 1
    IN  [heap |-> Append(moved, [heap[head] EXCEPT !.kind = "envelope"]),
         envelope |-> env,
         out |-> Addr(env) + OffsetOfData(heap[head].tag, W)]

\* ares_parse_mx_reply, for a frame that parses and whose answers parse.
ares_parse_mx_reply(answers, W) ==
    Envelope(ReplyLoop(<<Cell("node", "MxReply", 0)>>, 1, answers, TRUE), 1, W)

\* ares_parse_txt_reply
ares_parse_txt_reply(answers, W) ==
    Envelope(ReplyLoop(<<Cell("node", "TxtReply", 0)>>, 1, answers, FALSE), 1, W)

\* chain_nodes, the loop: tail is boxed and becomes the next of the element
\* popped from the back.
RECURSIVE ChainLoop(_, _, _)
ChainLoop(heap, elts, tail) ==
    IF elts = <<>> THEN [heap |-> heap, head |-> tail]
    ELSE LET h1 == Append(heap, tail)
             x == [elts[Len(elts)] EXCEPT !.next = Len(h1)]
         IN  ChainLoop(h1, SubSeq(elts, 1, Len(elts) - 1), x)

\* chain_nodes starting its chain from the first element instead of the last.
chain_nodes_from_front(elts) ==
    ChainLoop(<<>>, Tail(elts), elts[1])

\* chain_nodes(elts), elts not empty: the head node, by value.
chain_nodes(elts) ==
    ChainLoop(<<>>, SubSeq(elts, 1, Len(elts) - 1), elts[Len(elts)])

\* get_servers_ports: one AresAddrPortNode per server, chained, the head
\* boxed in an envelope.
get_servers_ports(servers, W) ==
    LET chained == chain_nodes([i \in 1..Len(servers) |->
                                  Cell("node", "AddrPortNode", servers[i])])
        env == Len(chained.heap) + 1
    IN  [heap |-> Append(chained.heap, [chained.head EXCEPT !.kind = "envelope"]),
         envelope |-> env,
         out |-> Addr(env) + OffsetOfData("AddrPortNode", W)]

\* Drop for AresMxReply / AresTxtReply of the node in cell a: CString::from_raw
\* of the string and its drop, then Box::from_raw(next) and its drop (the
\* node's Drop, then its deallocation) when next is not null.  ub: a null or
\* freed string, or a next that is freed or being dropped, was used; fault is
\* the cell used.
RECURSIVE DropNode(_, _)
DropNode(st, a) ==
    LET c == st.heap[a]
        s1 == IF c.str = 0 \/ st.heap[c.str].frees > 0
              THEN [st EXCEPT !.ub = TRUE, !.fault = c.str]
              ELSE [st EXCEPT !.heap[c.str].frees = 1, !.heap[a].drops = 1]
    IN  IF s1.ub \/ c.next = 0 THEN s1
        ELSE IF s1.heap[c.next].frees > 0 \/ s1.heap[c.next].drops > 0
        THEN [s1 EXCEPT !.ub = TRUE, !.fault = c.next]
        ELSE LET s2 == DropNode(s1, c.next) IN
             IF s2.ub THEN s2 ELSE [s2 EXCEPT !.heap[c.next].frees = 1]

\* ares_free_data: the tag is read at the restored address and the envelope
\* dropped as a Box<AresData<T>> of that tag.  AresAddrPortNode has no Drop.
ares_free_data(heap, dataptr, W) ==
    LET restored == restore_original_ptr(dataptr, W)
        e == restored \div CellSpan
        st == [heap |-> heap, ub |-> FALSE, fault |-> 0]
    IN  IF \/ restored % CellSpan # 0
           \/ e \notin 1..Len(heap)
           \/ heap[e].kind # "envelope"
           \/ heap[e].frees > 0
        THEN [st EXCEPT !.ub = TRUE]
        ELSE LET dropped == IF heap[e].tag \in {"MxReply", "TxtReply"}
                            THEN DropNode(st, e) ELSE st
             IN  IF dropped.ub THEN dropped
                 ELSE [dropped EXCEPT !.heap[e].frees = 1]

\* What an answer or a server carries.
ListItems == {1, 2}

ListRun(tag, W, items) ==
    [kind |-> "list", stage |-> "input", tag |-> tag, width |-> W,
     items |-> items, heap |-> <<>>, envelope |-> 0, out |-> 0,
     outcome |-> "none"]

\* A frame with up to MaxNodes answers, or a channel with 1 to MaxNodes
\* servers.
InitList ==
    /\ channel = "live"
    /\ timeout_secs = 1
    /\ nameservers = <<>>
    /\ tasks = <<>>
    /\ nextId = 1
    /\ now = 0
    /\ ncalls = [id \in TaskIds |-> 0]
    /\ last = Called("none")
    /\ codec = NoCodec
    /\ \E tag \in AresDataTypes, W \in PointerWidths,
          items \in SeqsUpTo(ListItems, MaxNodes) :
          /\ tag = "AddrPortNode" => items # <<>>
          /\ unit = ListRun(tag, W, items)

\* ares_parse_mx_reply / ares_parse_txt_reply / get_servers_ports
ParseReply ==
    /\ unit.kind = "list" /\ unit.stage = "input"
    /\ LET r == CASE unit.tag = "MxReply" -> ares_parse_mx_reply(unit.items, unit.width)
                  [] unit.tag = "TxtReply" -> ares_parse_txt_reply(unit.items, unit.width)
                  [] unit.tag = "AddrPortNode" -> get_servers_ports(unit.items, unit.width)
       IN  unit' = [unit EXCEPT !.stage = "parsed", !.heap = r.heap,
                              !.envelope = r.envelope, !.out = r.out]
    /\ UNCHANGED <<engine, codec>>

\* ares_free_data(*out).  Where it used a null, freed or half-dropped cell
\* the behaviour is undefined: the process aborts there, or the cell is
\* deallocated once more and the call goes on to return.
FreeData ==
    /\ unit.kind = "list" /\ unit.stage = "parsed"
    /\ LET r == ares_free_data(unit.heap, unit.out, unit.width) IN
       \E outcome \in (IF r.ub THEN {"abort", "continues"} ELSE {"returned"}) :
          unit' = [unit EXCEPT
                     !.stage = "freed",
                     !.outcome = outcome,
                     !.heap = IF outcome = "continues" /\ r.fault # 0
                              THEN [r.heap EXCEPT ![r.fault].frees = @ + 1]
                              ELSE r.heap]
    /\ UNCHANGED <<engine, codec>>

NextList ==
    \/ ParseReply
    \/ FreeData

SpecList == InitList /\ [][NextList]_vars

\* The cells reached from cell a along next, a included, up to the first
\* null, the first deallocated cell (included) or `fuel` cells.
RECURSIVE Walk(_, _, _)
Walk(heap, a, fuel) ==
    IF a = 0 \/ fuel = 0 THEN <<>>
    ELSE IF heap[a].frees > 0 THEN <<a>>
    ELSE <<a>> \o Walk(heap, heap[a].next, fuel - 1)

\* The nodes of the list *out points to.
ListNodes == Walk(unit.heap, unit.envelope, Len(unit.heap) + 1)

\* C25: the list returned by parse_mx_reply and parse_txt_reply has exactly
\* one node per answer, in answer order, each node's next being the following
\* node and the last one's NULL: no node is reached twice, for every number of
\* answers, 0 and 2 or more included.
C25_OneNodePerAnswer ==
    (unit.kind = "list" /\ unit.stage = "parsed" /\ unit.tag \in {"MxReply", "TxtReply"})
    => /\ Len(ListNodes) = Len(unit.items)
       /\ \A i \in 1..Len(ListNodes) :
             /\ unit.heap[ListNodes[i]].frees = 0
             /\ unit.heap[ListNodes[i]].str # 0
             /\ unit.heap[ListNodes[i]].val = unit.items[i]
             /\ \A j \in 1..Len(ListNodes) : ListNodes[i] = ListNodes[j] => i = j

\* C26: free_data on the payload pointer of an n-node list releases the
\* envelope, each of the nodes and each string they own exactly once, for each
\* of the three tags: nothing is freed twice, nothing stays allocated.
C26_EverythingFreedOnce ==
    (unit.kind = "list" /\ unit.stage = "freed" /\ unit.items # <<>>)
    => /\ unit.outcome = "returned"
       /\ \A a \in 1..Len(unit.heap) : unit.heap[a].frees = 1

\* C27: for each payload type, the offset free_data subtracts (that of the
\* envelope of a *mut c_void) takes the payload address back to the address of
\* the envelope, and the tag there is the tag written at allocation, then and
\* after free_data.
C27_EnvelopeAddressRestored ==
    (unit.kind = "list" /\ unit.stage \in {"parsed", "freed"})
    => /\ restore_original_ptr(unit.out, unit.width) = Addr(unit.envelope)
       /\ unit.heap[unit.envelope].kind = "envelope"
       /\ unit.heap[unit.envelope].tag = unit.tag

\* An envelope of an AresAddrPortNode on a target with 8-byte pointers.
C27_Witness ==
    /\ unit.kind = "list" /\ unit.stage = "freed"
    /\ unit.tag = "AddrPortNode" /\ unit.width = 8
    /\ unit.out = Addr(unit.envelope) + 8

----------------------------------------------------------------------------
(* src/ffi/null_terminated.rs (and src/ffi/cnullterminated.rs, the same     *)
(* with the sentinel fixed to NULL)                                         *)

MaxArrayLen == 3

\* Elements of an array; 0 is NULL.
ArrayElements == {0, 1, 2}
Sentinels == {0, 2}

\* from_vec: the sentinel is pushed and the vector becomes a boxed slice; the
\* pointer returned is to its first slot.  <<slots>> is a pointer to an
\* allocation of Len(slots) slots, <<>> the null pointer.
from_vec(v, sentinel) == <<Append(v, sentinel)>>

\* The loop of into_vec: the number of slots read up to the first sentinel,
\* the sentinel included.  `past`: a read beyond the allocation.
RECURSIVE SentinelLen(_, _, _)
SentinelLen(slots, sentinel, len) ==
    IF len + 1 > Len(slots) THEN [len |-> len, past |-> TRUE]
    ELSE IF slots[len + 1] = sentinel THEN [len |-> len + 1, past |-> FALSE]
    ELSE SentinelLen(slots, sentinel, len + 1)

\* into_vec without the pop of the sentinel.
into_vec_keeping_sentinel(ptr, sentinel) ==
    IF ptr = <<>> THEN [vec |-> <<>>, cap |-> 0, past |-> FALSE]
    ELSE LET n == SentinelLen(Head(ptr), sentinel, 0) IN
         [vec |-> SubSeq(Head(ptr), 1, n.len), cap |-> n.len, past |-> n.past]

\* into_vec: Vec::from_raw_parts(ptr, len, len), then pop.  vec: the elements
\* of the vector returned; cap: its capacity, the slots it gives back to the
\* allocator when dropped.
into_vec(ptr, sentinel) ==
    IF ptr = <<>> THEN [vec |-> <<>>, cap |-> 0, past |-> FALSE]
    ELSE LET n == SentinelLen(Head(ptr), sentinel, 0) IN
         [vec |-> SubSeq(Head(ptr), 1, n.len - 1), cap |-> n.len, past |-> n.past]

ArrayRun(v, sentinel) ==
    [kind |-> "array", stage |-> "input", input |-> v, sentinel |-> sentinel,
     ptr |-> <<>>, back |-> [vec |-> <<>>, cap |-> 0, past |-> FALSE]]

InitArray ==
    /\ channel = "live"
    /\ timeout_secs = 1
    /\ nameservers = <<>>
    /\ tasks = <<>>
    /\ nextId = 1
    /\ now = 0
    /\ ncalls = [id \in TaskIds |-> 0]
    /\ last = Called("none")
    /\ codec = NoCodec
    /\ \E v \in SeqsUpTo(ArrayElements, MaxArrayLen), sentinel \in Sentinels :
          unit = ArrayRun(v, sentinel)

\* null_terminated::from_vec(v, sentinel)
FromVec ==
    /\ unit.kind = "array" /\ unit.stage = "input"
    /\ unit' = [unit EXCEPT !.stage = "array",
                            !.ptr = from_vec(unit.input, unit.sentinel)]
    /\ UNCHANGED <<engine, codec>>

\* null_terminated::into_vec(ptr, sentinel) of the pointer from_vec returned
IntoVec ==
    /\ unit.kind = "array" /\ unit.stage = "array"
    /\ unit' = [unit EXCEPT !.stage = "vec",
                            !.back = into_vec(unit.ptr, unit.sentinel)]
    /\ UNCHANGED <<engine, codec>>

NextArray ==
    \/ FromVec
    \/ IntoVec

SpecArray == InitArray /\ [][NextArray]_vars

\* No element of the input is the sentinel.
NoSentinelInside ==
    \A i \in 1..Len(unit.input) : unit.input[i] # unit.sentinel

\* C28: from_vec on n elements none of which is the sentinel gives an array
\* whose first sentinel is at index n (from 0), and into_vec on it returns the
\* same n elements in the same order, without the sentinel, and reclaims the
\* n + 1 slots of the allocation, for every n >= 0.
C28_ArrayRoundTrip ==
    (unit.kind = "array" /\ NoSentinelInside) =>
        /\ unit.stage \in {"array", "vec"} =>
              /\ Len(Head(unit.ptr)) = Len(unit.input) + 1
              /\ Head(unit.ptr)[Len(unit.input) + 1] = unit.sentinel
              /\ \A i \in 1..Len(unit.input) : Head(unit.ptr)[i] # unit.sentinel
        /\ unit.stage = "vec" =>
              /\ unit.back.vec = unit.input
              /\ unit.back.cap = Len(unit.input) + 1
              /\ unit.back.cap = Len(Head(unit.ptr))
              /\ ~unit.back.past

\* A full-length vector taken through both functions.
C28_Witness ==
    /\ unit.kind = "array" /\ unit.stage = "vec"
    /\ NoSentinelInside
    /\ Len(unit.input) = MaxArrayLen
    /\ unit.back.vec = unit.input

----------------------------------------------------------------------------
(* src/ffi/ares_hostent.rs: parse_hostent in its address modes *)

MaxHostentAnswers == 2

\* libc::AF_INET, libc::AF_INET6 (Linux)
AF_INET == 2
AF_INET6 == 10

\* Answers of a frame that parses and whose names resolve: A, AAAA, NS and
\* CNAME records with 4, 16 or 3 bytes of data.
HostentData ==
    {<<127, 0, 0, 1>>, <<10, 0, 0, 2>>, [i \in 1..16 |-> 1], <<1, 2, 3>>}
HostentAnswers == [record_type : {1, 28, 2, 5}, data : HostentData]
AddressModes == {"Addrs", "Addrs4", "Addrs6"}

\* The loop over the answers in an address mode.  bufs: the buffers
\* libc::malloc has returned so far, with their contents; addr_list: the
\* pointers pushed (indices of bufs).  An early return leaves bufs as it is:
\* addr_list is a Vec of raw pointers.
RECURSIVE AddrsLoop(_, _, _, _, _)
AddrsLoop(answers, mode, h_addrtype, bufs, addr_list) ==
    IF answers = <<>> THEN [err |-> <<>>, bufs |-> bufs, addr_list |-> addr_list]
    ELSE IF \/ mode = "Addrs4" /\ h_addrtype # AF_INET
            \/ mode = "Addrs6" /\ h_addrtype # AF_INET6
    THEN AddrsLoop(Tail(answers), mode, h_addrtype, bufs, addr_list)
    ELSE IF h_addrtype \notin {AF_INET, AF_INET6}
    THEN [err |-> <<ARES_EFORMERR>>, bufs |-> bufs, addr_list |-> addr_list]
    ELSE IF Len(Head(answers).data) # (IF h_addrtype = AF_INET THEN 4 ELSE 16)
    THEN [err |-> <<ARES_EFORMERR>>, bufs |-> bufs, addr_list |-> addr_list]
    ELSE AddrsLoop(Tail(answers), mode, h_addrtype,
                   Append(bufs, [data |-> Head(answers).data, frees |-> 0]),
                   Append(addr_list, Len(bufs) + 1))

\* parse_hostent.  result: "Ok", "Err" or "panic" (the record type of the
\* first answer is none of A, AAAA, NS).
parse_hostent(answers, mode) ==
    LET none == [result |-> "Err", code |-> ARES_ENODATA, bufs |-> <<>>,
                 h_addrtype |-> 0, h_length |-> 0, h_addr_list |-> <<>>]
    IN
    IF answers = <<>> THEN none
    ELSE IF Head(answers).record_type \notin {1, 28, 2}
    THEN [none EXCEPT !.result = "panic", !.code = 0]
    ELSE LET h_addrtype == CASE Head(answers).record_type = 1 -> AF_INET
                             [] Head(answers).record_type = 28 -> AF_INET6
                             [] Head(answers).record_type = 2 -> 2
             loop == AddrsLoop(answers, mode, h_addrtype, <<>>, <<>>)
         IN  IF loop.err # <<>>
             THEN [none EXCEPT !.code = Head(loop.err), !.bufs = loop.bufs,
                               !.h_addrtype = h_addrtype]
             ELSE [result |-> "Ok", code |-> ARES_SUCCESS, bufs |-> loop.bufs,
                   h_addrtype |-> h_addrtype,
                   h_length |-> Len(Head(answers).data),
                   h_addr_list |-> from_vec(loop.addr_list, 0)]

HostentRun(answers, mode) ==
    [kind |-> "hostent", stage |-> "input", answers |-> answers, mode |-> mode,
     ret |-> [result |-> "none", code |-> 0, bufs |-> <<>>, h_addrtype |-> 0,
              h_length |-> 0, h_addr_list |-> <<>>]]

InitHostent ==
    /\ channel = "live"
    /\ timeout_secs = 1
    /\ nameservers = <<>>
    /\ tasks = <<>>
    /\ nextId = 1
    /\ now = 0
    /\ ncalls = [id \in TaskIds |-> 0]
    /\ last = Called("none")
    /\ codec = NoCodec
    /\ \E answers \in SeqsUpTo(HostentAnswers, MaxHostentAnswers),
          mode \in AddressModes :
          unit = HostentRun(answers, mode)

\* parse_hostent(abuf, alen, mode)
ParseHostent ==
    /\ unit.kind = "hostent" /\ unit.stage = "input"
    /\ unit' = [unit EXCEPT !.stage = "built",
                            !.ret = parse_hostent(unit.answers, unit.mode)]
    /\ UNCHANGED <<engine, codec>>

NextHostent == ParseHostent

SpecHostent == InitHostent /\ [][NextHostent]_vars

\* The answers the mode keeps: Addrs4 keeps them when the entry is AF_INET,
\* Addrs6 when it is AF_INET6, Addrs always.
KeptAnswers ==
    IF \/ unit.mode = "Addrs4" /\ unit.ret.h_addrtype # AF_INET
       \/ unit.mode = "Addrs6" /\ unit.ret.h_addrtype # AF_INET6
    THEN <<>> ELSE unit.answers

KeptLengthsRight ==
    \A i \in 1..Len(KeptAnswers) :
        Len(KeptAnswers[i].data) = (IF unit.ret.h_addrtype = AF_INET THEN 4 ELSE 16)

\* C29: in an address mode, for an AF_INET or AF_INET6 entry, construction
\* succeeds only if every kept answer's data has 4 (AF_INET) or 16 (AF_INET6)
\* bytes and returns EFORMERR otherwise; on success h_addr_list is one fresh
\* copy per kept answer, in order, then a null; on EFORMERR no address buffer
\* allocated during the call remains allocated.
C29_AddrListOrEformerr ==
    (/\ unit.kind = "hostent" /\ unit.stage = "built"
     /\ unit.ret.h_addrtype \in {AF_INET, AF_INET6})
    => /\ unit.ret.result = "Ok" <=> KeptLengthsRight
       /\ ~KeptLengthsRight =>
             (unit.ret.result = "Err" /\ unit.ret.code = ARES_EFORMERR)
       /\ unit.ret.result = "Ok" =>
             LET list == Head(unit.ret.h_addr_list) IN
             /\ Len(list) = Len(KeptAnswers) + 1
             /\ list[Len(list)] = 0
             /\ \A i \in 1..Len(KeptAnswers) :
                   /\ list[i] \in 1..Len(unit.ret.bufs)
                   /\ unit.ret.bufs[list[i]].data = KeptAnswers[i].data
                   /\ unit.ret.bufs[list[i]].frees = 0
                   /\ \A j \in 1..Len(KeptAnswers) : list[i] = list[j] => i = j
       /\ unit.ret.result = "Err" =>
             \A b \in 1..Len(unit.ret.bufs) : unit.ret.bufs[b].frees > 0

----------------------------------------------------------------------------
(* src/sysconfig.rs and build_sysconfig of src/core/ares.rs *)

MaxConfigLines == 2

\* A token of a line after its keyword.  key: the text before '=' or ':' (the
\* whole token when it has neither); val: "" (nothing after it), "num" (a
\* number, num) or "bad" (not a number).
Token(key, val, num) == [key |-> key, val |-> val, num |-> num]

\* Lines of a resolv.conf, comments stripped and split at whitespace: the
\* keyword ("" for a line left empty) and the tokens after it.
ConfigLines ==
    {[keyword |-> "", args |-> <<>>],
     [keyword |-> "nameserver", args |-> <<Token("1.1.1.1", "", 0)>>],
     [keyword |-> "nameserver", args |-> <<Token("localhost", "", 0)>>],
     [keyword |-> "domain", args |-> <<Token("example.com", "", 0)>>],
     [keyword |-> "sortlist", args |-> <<Token("10.0.0.0", "", 0)>>],
     [keyword |-> "options", args |-> <<>>],
     [keyword |-> "options", args |-> <<Token("rotate", "", 0)>>],
     [keyword |-> "options", args |-> <<Token("timeout", "num", 2)>>],
     [keyword |-> "options", args |-> <<Token("retrans", "num", 0), Token("edns0", "", 0)>>],
     [keyword |-> "options", args |-> <<Token("attempts", "num", 1)>>],
     [keyword |-> "options", args |-> <<Token("attempts", "bad", 0)>>],
     [keyword |-> "options", args |-> <<Token("timeout", "", 0)>>]}

\* What read_to_string("/etc/resolv.conf") yields: <<>> for an error, or
\* <<lines>>.
ConfigFiles == {<<>>} \cup {<<text>> : text \in SeqsUpTo(ConfigLines, MaxConfigLines)}

\* Options::default(), derived: every number 0, every flag false.
Options_default ==
    [ndots |-> 0, attempts |-> 0, timeout_secs |-> 0, use_vc |-> FALSE,
     rotate |-> FALSE, inet6 |-> FALSE, edns0 |-> FALSE]

\* ResolvConf::default(), derived.
ResolvConf_default ==
    [nameservers |-> <<>>, domain |-> <<>>, search |-> <<>>,
     options |-> Options_default]

\* tok.parse::<IpAddr>() is Ok
IsIpAddr(tok) == tok.key \in {"1.1.1.1"}

\* take_num_arg: <<>> for MissingValue or InvalidNumber.
take_num_arg(tok) == IF tok.val = "num" THEN <<tok.num>> ELSE <<>>

\* parse_options_into: the options after the tokens, <<>> for an error.
RECURSIVE parse_options_into(_, _)
parse_options_into(opts, tokens) ==
    IF tokens = <<>> THEN <<opts>>
    ELSE LET tok == Head(tokens)
             num == take_num_arg(tok)
             numeric == tok.key \in {"ndots", "attempts", "timeout", "retrans"}
             next == CASE tok.key = "ndots" /\ num # <<>> -> [opts EXCEPT !.ndots = Head(num)]
                       [] tok.key = "attempts" /\ num # <<>> -> [opts EXCEPT !.attempts = Head(num)]
                       [] tok.key \in {"timeout", "retrans"} /\ num # <<>> ->
                              [opts EXCEPT !.timeout_secs = Head(num)]
                       [] tok.key \in {"use-vc", "usevc"} -> [opts EXCEPT !.use_vc = TRUE]
                       [] tok.key = "rotate" -> [opts EXCEPT !.rotate = TRUE]
                       [] tok.key = "inet6" -> [opts EXCEPT !.inet6 = TRUE]
                       [] tok.key = "edns0" -> [opts EXCEPT !.edns0 = TRUE]
                       [] OTHER -> opts
         IN  IF numeric /\ num = <<>> THEN <<>>
             ELSE parse_options_into(next, Tail(tokens))

\* The loop over the lines of ResolvConf::from_str: <<conf>>, or <<>> for Err.
RECURSIVE FromStrLoop(_, _)
FromStrLoop(conf, lines) ==
    IF lines = <<>> THEN <<conf>>
    ELSE LET line == Head(lines) IN
         IF line.keyword = "" THEN FromStrLoop(conf, Tail(lines))
         ELSE IF line.args = <<>> THEN <<>>
         ELSE IF line.keyword = "nameserver"
         THEN IF \E i \in 1..Len(line.args) : ~IsIpAddr(line.args[i]) THEN <<>>
              ELSE FromStrLoop(
                     [conf EXCEPT !.nameservers =
                         @ \o [i \in 1..Len(line.args) |-> line.args[i].key]],
                     Tail(lines))
         ELSE IF line.keyword = "domain"
         THEN FromStrLoop([conf EXCEPT !.domain = <<line.args[1].key>>], Tail(lines))
         ELSE IF line.keyword = "search"
         THEN FromStrLoop(
                [conf EXCEPT !.search =
                    @ \o [i \in 1..Len(line.args) |-> line.args[i].key]],
                Tail(lines))
         ELSE IF line.keyword = "options"
         THEN LET opts == parse_options_into(conf.options, line.args) IN
              IF opts = <<>> THEN <<>>
              ELSE FromStrLoop([conf EXCEPT !.options = Head(opts)], Tail(lines))
         ELSE FromStrLoop(conf, Tail(lines))

\* ResolvConf::from_str: the options start at timeout_secs 5, attempts 4.
from_str(lines) ==
    FromStrLoop([ResolvConf_default EXCEPT
                    !.options = [Options_default EXCEPT !.timeout_secs = 5,
                                                        !.attempts = 4]],
                lines)

\* build_sysconfig: the file read and parsed, or else SysConfig::default().
build_sysconfig(file) ==
    IF file = <<>> THEN ResolvConf_default
    ELSE IF from_str(Head(file)) = <<>> THEN ResolvConf_default
    ELSE Head(from_str(Head(file)))

ConfigRun(file) ==
    [kind |-> "config", stage |-> "input", file |-> file,
     config |-> ResolvConf_default]

\* Before ares_init: no channel yet.
InitConfig ==
    /\ channel = "none"
    /\ timeout_secs = 0
    /\ nameservers = <<>>
    /\ tasks = <<>>
    /\ nextId = 1
    /\ now = 0
    /\ ncalls = [id \in TaskIds |-> 0]
    /\ last = Called("none")
    /\ codec = NoCodec
    /\ \E file \in ConfigFiles : unit = ConfigRun(file)

\* ares_init: Ares::from_sysconfig(), the channel's config is what
\* build_sysconfig returns.
InitChannel ==
    /\ unit.kind = "config" /\ unit.stage = "input"
    /\ unit' = [unit EXCEPT !.stage = "built", !.config = build_sysconfig(unit.file)]
    /\ channel' = "live"
    /\ timeout_secs' = build_sysconfig(unit.file).options.timeout_secs
    /\ last' = Called("ares_init")
    /\ UNCHANGED <<nameservers, tasks, nextId, now, ncalls, codec>>

NextConfig == InitChannel

SpecConfig == InitConfig /\ [][NextConfig]_vars

\* The text sets neither attempts nor the timeout.
SetsNoOptions(lines) ==
    \A i \in 1..Len(lines) :
        lines[i].keyword = "options" =>
            \A j \in 1..Len(lines[i].args) :
                lines[i].args[j].key \notin {"attempts", "timeout", "retrans"}

\* The fallback configuration is used: the file cannot be read or parsed.
FallbackUsed == unit.file = <<>> \/ from_str(Head(unit.file)) = <<>>

\* C30: a channel created by init has attempts = 4 and timeout_secs = 5 when
\* the text parsed sets no options and when the fallback configuration is
\* used, so that a task submitted at time t is not expired before t + 5.
C30_DefaultOptions ==
    (/\ unit.kind = "config" /\ unit.stage = "built"
     /\ FallbackUsed \/ SetsNoOptions(Head(unit.file)))
    => /\ unit.config.options.attempts = 4
       /\ unit.config.options.timeout_secs = 5
       /\ timeout_secs = 5
       /\ \A d \in 0..4 :
             ~is_expired(NewTask(1, 3, CHOOSE h \in Hostnames : TRUE, "host"), now + d)

----------------------------------------------------------------------------
(* One step of ares_process, task by task *)

\* C31: in one process step each task performs at most one syscall: a task
\* that is sent in the step (Writing, its fd in both sets) has no recvfrom
\* attempted on it in that same step.
C31_OneSyscallPerTask ==
    ProcessReturned =>
        \A j \in Indices(last.events), k \in Indices(last.events) :
            ( /\ IsSyscall(last.events[j])
              /\ IsSyscall(last.events[k])
              /\ last.events[j].id = last.events[k].id ) => j = k

\* C32: when the recvfrom attempted for a task fails with would-block, process
\* returns normally, the task keeps the status it had and gets no callback in
\* the step.
C32_FailedSyscallTolerated ==
    last.op = "ares_process" =>
        \A k \in Indices(last.events) :
            LET e == last.events[k] IN
            (e.ev = "recvfrom" /\ e.got = "WouldBlock") =>
                /\ channel = "live"
                /\ \E i \in Indices(tasks) :
                       tasks[i].id = e.id /\ tasks[i].status = e.st
                /\ \A j \in Indices(last.events) :
                       ~(last.events[j].ev = "callback" /\ last.events[j].id = e.id)

\* C33: the list holds the tasks in submission order after every call; the
\* I/O scan of one step visits them in that order, so its syscalls and its
\* response callbacks come in submission order; and a submission appends
\* exactly one task, Writing, at the end and changes no other.
C33_SubmissionOrder ==
    [][ /\ \A i \in Indices(tasks'), j \in Indices(tasks') :
               i < j => tasks'[i].id < tasks'[j].id
        /\ last'.op = "ares_process" =>
               \A j \in Indices(last'.events), k \in Indices(last'.events) :
                   ( /\ j < k
                     /\ \/ IsResponse(last'.events[j]) /\ IsResponse(last'.events[k])
                        \/ IsSyscall(last'.events[j]) /\ IsSyscall(last'.events[k]) )
                   => last'.events[j].id <= last'.events[k].id
        /\ (channel' = "live" /\ last'.op \in {"ares_gethostbyname", "ares_query"}) =>
               /\ Len(tasks') = Len(tasks) + 1
               /\ SubSeq(tasks', 1, Len(tasks)) = tasks
               /\ tasks'[Len(tasks')].status = "Writing"
               /\ tasks'[Len(tasks')].id = nextId
      ]_vars

\* A step that delivered the responses of two tasks, the first submitted
\* first.
C33_Witness ==
    /\ ProcessReturned
    /\ \E j \in Indices(last.events), k \in Indices(last.events) :
           /\ j < k
           /\ IsResponse(last.events[j]) /\ last.events[j].id = 1
           /\ IsResponse(last.events[k]) /\ last.events[k].id = 2

----------------------------------------------------------------------------
(* The length byte of DnsLabel::parse *)

\* C36: DnsLabel::parse takes a length byte for a compression pointer exactly
\* when both of its top two bits are set (0xC0..0xFF), the offset being the
\* 14 bits made of its low 6 bits and the next byte; a length byte with only
\* one of the two bits set (0x40..0xBF) is not decoded as a pointer.
C36_PointerNeedsBothTopBits ==
    (LabelParsed /\ Len(codec.input) >= 2) =>
        LET b == codec.input[1] IN
        /\ b \in 192..255 =>
               /\ codec.parsed # <<>>
               /\ Head(codec.parsed).val.name = <<>>
               /\ Head(codec.parsed).val.offset
                      = <<(b % 64) * 256 + codec.input[2]>>
        /\ b \in 64..191 =>
               ~(codec.parsed # <<>> /\ Head(codec.parsed).val.offset # <<>>)

----------------------------------------------------------------------------
(* The chain built by chain_nodes *)

\* C37: chain_nodes of n nodes, n > 0, gives the first node as head, the next
\* of the i-th node being a heap copy of the (i+1)-th, the next of the last
\* NULL: the walk along next from the head visits the n nodes in their order,
\* each once.
C37_ChainInOrder ==
    (unit.kind = "list" /\ unit.stage = "parsed" /\ unit.tag = "AddrPortNode")
    => /\ Len(ListNodes) = Len(unit.items)
       /\ unit.heap[ListNodes[Len(ListNodes)]].next = 0
       /\ \A i \in 1..Len(ListNodes) :
             /\ unit.heap[ListNodes[i]].val = unit.items[i]
             /\ i < Len(ListNodes) =>
                   /\ unit.heap[ListNodes[i]].next = ListNodes[i + 1]
                   /\ unit.heap[ListNodes[i + 1]].kind = "node"
             /\ \A j \in 1..Len(ListNodes) : ListNodes[i] = ListNodes[j] => i = j

\* A chain of MaxNodes nodes that do not all carry the same.
C37_Witness ==
    /\ unit.kind = "list" /\ unit.stage = "parsed" /\ unit.tag = "AddrPortNode"
    /\ Len(unit.items) = MaxNodes
    /\ unit.items[1] # unit.items[2]
    /\ Len(ListNodes) = MaxNodes

----------------------------------------------------------------------------
(* src/ffi/ares_options.rs, ares_set_servers of src/ffi/mod.rs and the      *)
(* destination of Ares::write_impl                                          *)

MaxServers == 2

ARES_OPT_UDP_PORT == 16
ARES_OPT_TCP_PORT == 32
ARES_OPT_SERVERS == 64

\* optmask & bit != 0, bit a power of two.
HasBit(mask, bit) == (mask \div bit) % 2 = 1

\* IPv4 addresses, as their four octets in memory.
ServerAddrs == {<<8, 8, 4, 4>>, <<10, 0, 0, 1>>}

\* in_addr.s_addr: the u32 the host reads at the four octets.
s_addr_of(octets, endian) ==
    LET b == IF endian = "big" THEN octets
             ELSE <<octets[4], octets[3], octets[2], octets[1]>>
    IN  ((b[1] * 256 + b[2]) * 256 + b[3]) * 256 + b[4]

\* u32::from_be: the bytes swapped on a little-endian host.
u32_from_be(x, endian) ==
    IF endian = "big" THEN x
    ELSE LET b == put_u32(x) IN ((b[4] * 256 + b[3]) * 256 + b[2]) * 256 + b[1]

\* Ipv4Addr::from(u32): the octets of the number, the most significant first.
Ipv4Addr_from_u32(x) == put_u32(x)

\* A nameserver of the configuration: (address, optional port).
Nameserver(addr, port) == [addr |-> addr, port |-> port]

\* ares_addr_node: family and the 16 bytes of data (next is its place in the
\* list): the IPv4 servers and ::1.
AddrNodes ==
    {[family |-> AF_INET, data |-> a \o [i \in 1..12 |-> 0]] : a \in ServerAddrs}
    \cup {[family |-> AF_INET6, data |-> [i \in 1..15 |-> 0] \o <<1>>]}

\* Ares::new on a configuration that names at most one server, without port,
\* on a host of either byte order.  The run: the default ports of the
\* channel, the last configuration call (its optmask, its servers, its
\* nodes), the udp_port of the last ares_init_options that had the UDP-port
\* bit, and the task and socket address of the last send_to.
InitServers ==
    /\ channel = "live"
    /\ timeout_secs = 1
    /\ \E ns \in SeqsUpTo(ServerAddrs, 1) :
           nameservers = [i \in 1..Len(ns) |-> Nameserver(ns[i], <<>>)]
    /\ tasks = <<>>
    /\ nextId = 1
    /\ now = 0
    /\ ncalls = [id \in TaskIds |-> 0]
    /\ last = Called("none")
    /\ codec = NoCodec
    /\ \E endian \in {"little", "big"} :
           unit = [kind |-> "servers", stage |-> "live", endian |-> endian,
                   default_udp_port |-> 53, default_tcp_port |-> 53,
                   call |-> [op |-> "none", optmask |-> 0, servers |-> <<>>,
                             nodes |-> <<>>],
                   udp_given |-> <<>>, sent |-> <<>>]

\* ares_init_options(channel, options, optmask); options.servers is null or
\* points to options.nservers in_addr.  One server is pushed per in_addr,
\* without port.
ares_init_options ==
    /\ channel = "live" /\ unit.kind = "servers"
    /\ \E u \in {0, ARES_OPT_UDP_PORT}, t \in {0, ARES_OPT_TCP_PORT},
          s \in {0, ARES_OPT_SERVERS}, udp_port \in {8053}, tcp_port \in {8053},
          servers_null \in BOOLEAN, servers \in SeqsUpTo(ServerAddrs, MaxServers) :
          LET optmask == u + t + s IN
          /\ servers_null => servers = <<>>
          /\ nameservers' =
                 IF HasBit(optmask, ARES_OPT_SERVERS) /\ ~servers_null
                 THEN [i \in 1..Len(servers) |->
                          Nameserver(Ipv4Addr_from_u32(
                                         u32_from_be(s_addr_of(servers[i], unit.endian),
                                                     unit.endian)),
                                     <<>>)]
                 ELSE <<>>
          /\ unit' = [unit EXCEPT
                        !.default_udp_port =
                            IF HasBit(optmask, ARES_OPT_UDP_PORT) THEN udp_port ELSE @,
                        !.default_tcp_port =
                            IF HasBit(optmask, ARES_OPT_TCP_PORT) THEN tcp_port ELSE @,
                        !.udp_given =
                            IF HasBit(optmask, ARES_OPT_UDP_PORT) THEN <<udp_port>> ELSE @,
                        !.call = [op |-> "ares_init_options", optmask |-> optmask,
                                  servers |-> servers, nodes |-> <<>>]]
    /\ UNCHANGED <<channel, timeout_secs, tasks, nextId, now, ncalls, last, codec>>

\* The loop of ares_set_servers: the first four bytes of data of the nodes
\* whose family is AF_INET.
RECURSIVE SetServersLoop(_)
SetServersLoop(nodes) ==
    IF nodes = <<>> THEN <<>>
    ELSE (IF Head(nodes).family = AF_INET
          THEN <<Nameserver(SubSeq(Head(nodes).data, 1, 4), <<>>)>>
          ELSE <<>>)
         \o SetServersLoop(Tail(nodes))

\* ares_set_servers(channel, head), head the first of `nodes` or NULL.
ares_set_servers ==
    /\ channel = "live" /\ unit.kind = "servers"
    /\ \E nodes \in SeqsUpTo(AddrNodes, MaxServers) :
          /\ nameservers' = SetServersLoop(nodes)
          /\ unit' = [unit EXCEPT !.call = [op |-> "ares_set_servers", optmask |-> 0,
                                            servers |-> <<>>, nodes |-> nodes]]
    /\ UNCHANGED <<channel, timeout_secs, tasks, nextId, now, ncalls, last, codec>>

\* ares_set_servers_ports_csv(channel, csv): the list becomes the (address,
\* optional port) pairs the servers string names.
ares_set_servers_ports_csv ==
    /\ channel = "live" /\ unit.kind = "servers"
    /\ \E servers \in SeqsUpTo({Nameserver(a, p) : a \in ServerAddrs,
                                                   p \in {<<>>, <<5300>>}}, MaxServers) :
          /\ nameservers' = servers
          /\ unit' = [unit EXCEPT !.call = [op |-> "ares_set_servers_ports_csv",
                                            optmask |-> 0, servers |-> servers,
                                            nodes |-> <<>>]]
    /\ UNCHANGED <<channel, timeout_secs, tasks, nextId, now, ncalls, last, codec>>

\* The destination of write_impl sending to the last of the nameservers.
socket_addr_of_last(ns, default_udp_port) ==
    LET ns_addr == ns[Len(ns)] IN
    [addr |-> ns_addr.addr,
     port |-> IF ns_addr.port # <<>> THEN Head(ns_addr.port) ELSE default_udp_port]

\* The destination of write_impl: nameservers.first(), its port or the
\* default UDP port of the channel.
socket_addr(ns, default_udp_port) ==
    LET ns_addr == Head(ns) IN
    [addr |-> ns_addr.addr,
     port |-> IF ns_addr.port # <<>> THEN Head(ns_addr.port) ELSE default_udp_port]

\* Ares::write_impl on a Writing task whose fd is writable.
WriteTask ==
    /\ channel = "live" /\ unit.kind = "servers"
    /\ \E i \in Indices(tasks) :
          /\ tasks[i].status = "Writing"
          /\ LET r == write_impl(tasks[i]) IN
             IF r.panic
             THEN /\ channel' = "aborted"
                  /\ tasks' = <<>>
                  /\ UNCHANGED unit
             ELSE /\ tasks' = [tasks EXCEPT ![i] = r.task]
                  /\ unit' = [unit EXCEPT
                                !.sent = <<[id |-> tasks[i].id,
                                            to |-> socket_addr(nameservers,
                                                               unit.default_udp_port)]>>]
                  /\ UNCHANGED channel
    /\ UNCHANGED <<timeout_secs, nameservers, nextId, now, ncalls, last, codec>>

NextServers ==
    \/ ares_init_options
    \/ ares_set_servers
    \/ ares_set_servers_ports_csv
    \/ ares_query
    \/ Return
    \/ WriteTask

SpecServers == InitServers /\ [][NextServers]_vars

\* A step in which a request was sent.
Sends == unit.kind = "servers" /\ unit'.sent # unit.sent

\* C34: the request of a Writing task goes to the first configured
\* nameserver, at that nameserver's own port when it has one and otherwise at
\* the default UDP port of the channel, which is 53 unless an init_options
\* with the UDP-port bit gave another; never to another configured
\* nameserver.
C34_SentToFirstNameserver ==
    [][ Sends =>
          LET to == Head(unit'.sent).to
              first == nameservers[1]
          IN  /\ nameservers # <<>>
              /\ to.addr = first.addr
              /\ to.port = IF first.port # <<>> THEN Head(first.port)
                           ELSE IF unit.udp_given # <<>> THEN Head(unit.udp_given)
                           ELSE 53
      ]_vars

\* A request sent with two different servers configured, the first without a
\* port of its own, after the default UDP port was changed.
C34_Witness ==
    /\ unit.kind = "servers" /\ unit.sent # <<>>
    /\ Len(nameservers) = 2
    /\ nameservers[1].addr # nameservers[2].addr
    /\ nameservers[1].port = <<>> /\ nameservers[2].port # <<>>
    /\ Head(unit.sent).to = [addr |-> nameservers[1].addr, port |-> 8053]

\* The address a node carries: four bytes for AF_INET, else all sixteen.
NodeAddress(node) ==
    IF node.family = AF_INET THEN SubSeq(node.data, 1, 4) ELSE node.data

\* C35: after set_servers(channel, head) the nameserver list is the
\* addresses of the nodes of the list at head, one entry per node in list
\* order, whatever was configured before; empty when head is NULL.
C35_OneEntryPerNode ==
    (unit.kind = "servers" /\ unit.call.op = "ares_set_servers") =>
        /\ Len(nameservers) = Len(unit.call.nodes)
        /\ \A i \in Indices(nameservers) :
               nameservers[i].addr = NodeAddress(unit.call.nodes[i])

\* C38: init_options changes only what optmask selects: without the servers
\* bit the nameserver list is after the call what it was before, the default
\* UDP and TCP ports change only with their bits; with the servers bit the
\* list becomes the IPv4 servers given, in order, each without a port.
C38_OnlyWhatOptmaskSelects ==
    [][ (unit.kind = "servers" /\ unit'.call.op = "ares_init_options") =>
          LET c == unit'.call IN
          /\ ~HasBit(c.optmask, ARES_OPT_SERVERS) => nameservers' = nameservers
          /\ ~HasBit(c.optmask, ARES_OPT_UDP_PORT) =>
                 unit'.default_udp_port = unit.default_udp_port
          /\ ~HasBit(c.optmask, ARES_OPT_TCP_PORT) =>
                 unit'.default_tcp_port = unit.default_tcp_port
          /\ HasBit(c.optmask, ARES_OPT_SERVERS) =>
                 nameservers' = [i \in 1..Len(c.servers) |->
                                    Nameserver(c.servers[i], <<>>)]
      ]_vars

----------------------------------------------------------------------------
(* The transaction id of a request and of the datagram that completes it    *)

\* Values of rand::thread_rng().gen::<u16>(), and of the id of a datagram.
TransactionIds == {0, 1, 256, 4660, 65535}

\* The question asked: a, type A, class IN.
TheQuery == [name |-> <<<<97>>>>, qtype |-> 1, qclass |-> 1]

\* What recv_from can put in buf[0..len]: a response frame to the question
\* under any transaction id, without error (0x8180) or with a name error
\* (0x8183), and bytes that are no frame.
ReplyDatagrams ==
    {DnsFrame_write([transaction_id |-> id, flags |-> fl, queries |-> <<TheQuery>>]) :
         id \in TransactionIds, fl \in {33152, 33155}}
    \cup {<<0, 1, 129>>}

\* A channel with a nameserver.  The run: the task, its writebuf being the
\* bytes of the request, the datagram read for it and the callbacks made.
InitReply ==
    /\ channel = "live"
    /\ timeout_secs = 1
    /\ nameservers \in ServerLists
    /\ tasks = <<>>
    /\ nextId = 1
    /\ now = 0
    /\ ncalls = [id \in TaskIds |-> 0]
    /\ last = Called("none")
    /\ codec = NoCodec
    /\ unit = [kind |-> "reply", stage |-> "idle", task |-> <<>>,
               datagram |-> <<>>, events |-> <<>>]

\* Ares::gethostbyname / Ares::query: the request frame under a random
\* transaction id, serialized into the writebuf of the new task.
EnqueueRequest ==
    /\ unit.kind = "reply" /\ unit.stage = "idle"
    /\ \E id \in TransactionIds, cb \in {"AresHostCallback", "AresCallback"},
          fd \in Fds, name \in Hostnames :
          LET request == [transaction_id |-> id, flags |-> 256,
                          queries |-> <<TheQuery>>]
          IN  unit' = [unit EXCEPT
                         !.stage = "enqueued",
                         !.task = <<[NewTask(1, fd, name, cb) EXCEPT
                                        !.writebuf = DnsFrame_write(request)]>>]
    /\ UNCHANGED <<engine, codec>>

\* ares_process with the fd of the task writable: write_impl.
SendRequest ==
    /\ unit.kind = "reply" /\ unit.stage = "enqueued"
    /\ LET r == write_impl(Head(unit.task)) IN
       /\ ~r.panic
       /\ unit' = [unit EXCEPT !.stage = "sent", !.task = <<r.task>>]
    /\ UNCHANGED <<engine, codec>>

\* Ares::read_impl, recv_from having put `datagram` in buf[0..len]: the task
\* is Completed and the datagram parsed.
read_impl_of(task, datagram) ==
    [task |-> [task EXCEPT !.status = "Completed"],
     frame |-> DnsFrame_parse(datagram)]

\* ares_process with the fd of the task readable: read_impl, then the
\* callback on Some(frame).
ReadReply ==
    /\ unit.kind = "reply" /\ unit.stage = "sent"
    /\ \E datagram \in ReplyDatagrams :
          LET r == read_impl_of(Head(unit.task), datagram) IN
          unit' = [unit EXCEPT
                     !.stage = "read",
                     !.task = <<r.task>>,
                     !.datagram = datagram,
                     !.events = IF r.frame = <<>> THEN <<>>
                                ELSE Callback_run(r.task, Head(r.frame)).events]
    /\ UNCHANGED <<engine, codec>>

NextReply ==
    \/ EnqueueRequest
    \/ SendRequest
    \/ ReadReply

SpecReply == InitReply /\ [][NextReply]_vars

\* C39: a task is completed with a response callback only by a datagram
\* whose transaction id is the one serialized in the task's own request: a
\* valid frame under another transaction id does not complete it.
C39_OnlyOwnTransactionId ==
    (/\ unit.kind = "reply" /\ unit.stage = "read"
     /\ \E k \in Indices(unit.events) : IsResponse(unit.events[k]))
    => /\ DnsHeader_parse(unit.datagram) # <<>>
       /\ Head(DnsHeader_parse(unit.datagram)).val.transaction_id
              = Head(DnsHeader_parse(Head(unit.task).writebuf)).val.transaction_id

====
